---- MODULE Spec2Model ----
(***************************************************************************)
(* State-machine model of the Ile-de-France real-estate pipeline:          *)
(* DataCleaner, CombinedAnalyzer, RentAnalyzer, RentDownloader and         *)
(* DVFDownloader.  Every component has its own specification over the      *)
(* shared variables; the variables of the other components stay idle.      *)
(***************************************************************************)
EXTENDS Integers, Sequences, FiniteSets, TLC

VARIABLES
    df_raw,          \* DataCleaner: the raw DVF table handed to clean_dvf_data
    clean_result,    \* DataCleaner: outcome of clean_dvf_data(df_raw)
    reclean_result,  \* DataCleaner: outcome of clean_dvf_data on its own output
    disk_rent,       \* the rent table of the analyzer's year on disk, or None
    ra_data,         \* RentAnalyzer.data
    ra_data_idf,     \* RentAnalyzer.data_idf
    pa_df,           \* CombinedAnalyzer.price_analyzer.df
    disk_clean,      \* the cleaned table saved for the year (None: no such file)
    fs,              \* the downloaders' data_dir: file name -> content
    rent_custom_urls,\* RENT_CUSTOM_URLS.get(year) for the downloader's year
    rent_csv_urls,   \* RENT_CSV_URLS.get(year) for the downloader's year
    last_call        \* the last analyzer/downloader call: name, arguments, outcome

cleanVars == <<df_raw, clean_result, reclean_result>>

analyzerVars == <<disk_rent, ra_data, ra_data_idf, pa_df, disk_clean>>

downloadVars == <<fs, rent_custom_urls, rent_csv_urls>>

vars == <<df_raw, clean_result, reclean_result,
          disk_rent, ra_data, ra_data_idf, pa_df, disk_clean,
          fs, rent_custom_urls, rent_csv_urls, last_call>>

\* Optional values that are not floats: None or a wrapped value
None == <<>>

Some(x) == <<x>>

(***************************************************************************)
(* Floating-point cells.  A float is a pair <<num, den>> with den >= 0:    *)
(* den > 0 is the rational num/den, <<0,0>> is NaN (a missing cell),       *)
(* <<1,0>> and <<-1,0>> are +inf and -inf.  Rounding is not modelled.      *)
(***************************************************************************)
Float(n) == <<n, 1>>

NaN == <<0, 0>>

isna(x) == x[1] = 0 /\ x[2] = 0

notna(x) == ~isna(x)

Sign(n) == IF n > 0 THEN 1 ELSE IF n < 0 THEN -1 ELSE 0

Abs(n) == IF n < 0 THEN -n ELSE n

RECURSIVE GCD(_, _)
GCD(a, b) == IF b = 0 THEN a ELSE GCD(b, a % b)

\* the pair of the fraction n/d in lowest terms, with d >= 0
Norm(n, d) ==
    IF d = 0 THEN <<Sign(n), 0>>
    ELSE LET g == GCD(Abs(n), Abs(d))
         IN  <<Sign(d) * (n \div g), Abs(d) \div g>>

\* numpy/pandas float division: x/0 is +-inf, 0/0 and anything with NaN is NaN
FDiv(a, b) == Norm(a[1] * b[2], a[2] * b[1])

FMul(a, b) == IF isna(a) \/ isna(b) THEN NaN ELSE Norm(a[1] * b[1], a[2] * b[2])

\* comparisons are False as soon as one side is NaN
FGe(a, b) == notna(a) /\ notna(b) /\ a[1] * b[2] >= b[1] * a[2]

FLe(a, b) == FGe(b, a)

FGt(a, b) == notna(a) /\ notna(b) /\ a[1] * b[2] > b[1] * a[2]

FEq(a, b) == notna(a) /\ notna(b) /\ a[1] * b[2] = b[1] * a[2]

(***************************************************************************)
(* Strings are sequences of one-character strings.                         *)
(***************************************************************************)
Upper(c) ==
    CASE c = "p" -> "P"
      [] c = "a" -> "A"
      [] c = "r" -> "R"
      [] OTHER -> c

Lower(c) ==
    CASE c = "P" -> "p"
      [] c = "A" -> "a"
      [] c = "R" -> "r"
      [] OTHER -> c

IsCased(c) == Upper(c) # Lower(c)

IsSpace(c) == c = " "

RECURSIVE lstrip(_)
lstrip(s) == IF s # <<>> /\ IsSpace(Head(s)) THEN lstrip(Tail(s)) ELSE s

RECURSIVE rstrip(_)
rstrip(s) ==
    IF s # <<>> /\ IsSpace(s[Len(s)]) THEN rstrip(SubSeq(s, 1, Len(s) - 1)) ELSE s

\* str.strip()
strip(s) == rstrip(lstrip(s))

\* str.title(): a cased character is upper-cased when the previous character
\* is not cased, lower-cased otherwise
title(s) ==
    [i \in 1..Len(s) |->
        IF i > 1 /\ IsCased(s[i - 1]) THEN Lower(s[i]) ELSE Upper(s[i])]

\* str.upper()
upper(s) == [i \in 1..Len(s) |-> Upper(s[i])]

(***************************************************************************)
(* Configuration (src/utils/config.py)                                     *)
(***************************************************************************)
MIN_PRICE_M2 == 500

MAX_PRICE_M2 == 40000

MIN_SURFACE == 9

VALID_MUTATION_TYPES == {"Vente"}

(***************************************************************************)
(* DataCleaner.clean_dvf_data.  A table is [columns, rows]: the set of     *)
(* column names and the sequence of rows, each row a function on columns.  *)
(***************************************************************************)
Table(cols, rows) == [columns |-> cols, rows |-> rows]

\* 1. df_clean[df_clean["nature_mutation"].isin(VALID_MUTATION_TYPES)]
FilterMutation(df) ==
    Table(df.columns,
          SelectSeq(df.rows, LAMBDA r : r["nature_mutation"] \in VALID_MUTATION_TYPES))

\* 2. valeur_fonciere present, then > 0
FilterValeur(df) ==
    Table(df.columns,
          SelectSeq(SelectSeq(df.rows, LAMBDA r : notna(r["valeur_fonciere"])),
                    LAMBDA r : FGt(r["valeur_fonciere"], Float(0))))

FilterSurface_NoMinimum(df) ==
    Table(df.columns,
          SelectSeq(df.rows, LAMBDA r : notna(r["surface_reelle_bati"])))

\* 3. surface_reelle_bati present, then >= MIN_SURFACE
FilterSurface(df) ==
    Table(df.columns,
          SelectSeq(SelectSeq(df.rows, LAMBDA r : notna(r["surface_reelle_bati"])),
                    LAMBDA r : FGe(r["surface_reelle_bati"], Float(MIN_SURFACE))))

\* 4. df_clean["prix_m2"] = valeur_fonciere / surface_reelle_bati
AddPrixM2(df) ==
    Table(df.columns \cup {"prix_m2"},
          [i \in 1..Len(df.rows) |->
              [c \in df.columns \cup {"prix_m2"} |->
                  IF c = "prix_m2"
                  THEN FDiv(df.rows[i]["valeur_fonciere"],
                            df.rows[i]["surface_reelle_bati"])
                  ELSE df.rows[i][c]]])

\* 5. MIN_PRICE_M2 <= prix_m2 <= MAX_PRICE_M2
FilterPrix(df) ==
    Table(df.columns,
          SelectSeq(df.rows, LAMBDA r : /\ FGe(r["prix_m2"], Float(MIN_PRICE_M2))
                                        /\ FLe(r["prix_m2"], Float(MAX_PRICE_M2))))

columns_to_keep ==
    {"date_mutation", "nature_mutation", "valeur_fonciere", "code_commune",
     "nom_commune", "code_departement", "type_local", "surface_reelle_bati",
     "nombre_pieces_principales", "prix_m2"}

\* 6. projection onto the columns of columns_to_keep that exist
Project(df) ==
    LET available_columns == columns_to_keep \cap df.columns
    IN  Table(available_columns,
              [i \in 1..Len(df.rows) |->
                  [c \in available_columns |-> df.rows[i][c]]])

\* pd.to_datetime(..., errors="coerce"): a timestamp stays, a parsable text
\* becomes its timestamp, anything else becomes NaT
to_datetime(d) ==
    CASE d \in {"ts:2023-01-05", "NaT"} -> d
      [] d \in {"2023-01-05", "05/01/2023"} -> "ts:2023-01-05"
      [] OTHER -> "NaT"

\* 7. date conversion, when the column exists
ConvertDate(df) ==
    IF "date_mutation" \in df.columns
    THEN Table(df.columns,
               [i \in 1..Len(df.rows) |->
                   [df.rows[i] EXCEPT !["date_mutation"] = to_datetime(@)]])
    ELSE df

\* 8. nom_commune.str.strip().str.title(), when the column exists
CleanNames(df) ==
    IF "nom_commune" \in df.columns
    THEN Table(df.columns,
               [i \in 1..Len(df.rows) |->
                   [df.rows[i] EXCEPT !["nom_commune"] = title(strip(@))]])
    ELSE df

\* DataFrame.drop_duplicates(): keep the first occurrence of every row
drop_duplicates(df) ==
    LET keep == {i \in 1..Len(df.rows) :
                     \A j \in 1..(i - 1) : df.rows[j] # df.rows[i]}
        RECURSIVE Pick(_)
        Pick(i) ==
            IF i > Len(df.rows) THEN <<>>
            ELSE (IF i \in keep THEN <<df.rows[i]>> ELSE <<>>) \o Pick(i + 1)
    IN  Table(df.columns, Pick(1))

required_columns == {"nature_mutation", "valeur_fonciere", "surface_reelle_bati"}

\* the rows on which step 4 divides: what is left after steps 1 to 3
DivisionInput(df) == FilterSurface(FilterValeur(FilterMutation(df)))

Finish_DedupBeforeNames(df) == CleanNames(ConvertDate(drop_duplicates(Project(df))))

\* steps 6 to 9
Finish(df) == drop_duplicates(CleanNames(ConvertDate(Project(df))))

\* the whole of clean_dvf_data: the cleaned table, or the exception raised.
\* "divided" lists the denominators of step 4.
clean_dvf_data(df) ==
    LET initial_count == Len(df.rows)
        divided  == DivisionInput(df)
        df_clean == Finish(FilterPrix(AddPrixM2(divided)))
    IN  IF ~(required_columns \subseteq df.columns)
        THEN [status |-> "KeyError", table |-> Table({}, <<>>), divided |-> <<>>]
        ELSE IF initial_count = 0
        THEN \* removed_pct = (removed_count / initial_count) * 100
             [status |-> "ZeroDivisionError", table |-> Table({}, <<>>),
              divided |-> <<>>]
        ELSE [status |-> "ok", table |-> df_clean,
              divided |-> [i \in 1..Len(divided.rows) |->
                              divided.rows[i]["surface_reelle_bati"]]]

(***************************************************************************)
(* RentStats (src/models/city.py) and RentAnalyzer.  A missing float       *)
(* (None) is NaN.  A missing text argument (None) is the empty text: the   *)
(* code only tests such arguments for truthiness.                          *)
(***************************************************************************)
MIN_R2_NUM == 5

MIN_R2_DEN == 10

MIN_OBSERVATIONS == 30

\* Python truthiness of an Optional[float]: None and 0 are falsy
Truthy(x) == notna(x) /\ x[1] # 0

\* A variant whose R2 threshold is strict.
is_reliable_StrictR2(stats) ==
    IF ~Truthy(stats.r2_ajuste) \/ ~Truthy(stats.nb_observations_commune)
    THEN FALSE
    ELSE /\ FGt(stats.r2_ajuste, <<MIN_R2_NUM, MIN_R2_DEN>>)
         /\ FGe(stats.nb_observations_commune, Float(MIN_OBSERVATIONS))

\* RentStats.is_reliable
is_reliable(stats) ==
    IF ~Truthy(stats.r2_ajuste) \/ ~Truthy(stats.nb_observations_commune)
    THEN FALSE
    ELSE /\ FGe(stats.r2_ajuste, <<MIN_R2_NUM, MIN_R2_DEN>>)
         /\ FGe(stats.nb_observations_commune, Float(MIN_OBSERVATIONS))

idf_departments == {"75", "77", "78", "91", "92", "93", "94", "95"}

\* RentDownloader.filter_idf_data
filter_idf_data(df) ==
    IF "DEP" \in df.columns
    THEN Table(df.columns, SelectSeq(df.rows, LAMBDA r : r["DEP"] \in idf_departments))
    ELSE df

\* A variant that reads the file at every call.
load_data_AlwaysReload(data, disk) ==
    IF disk = None THEN [data |-> None, raised |-> TRUE]
    ELSE [data |-> disk, raised |-> FALSE]

\* RentAnalyzer.load_data: the state of self.data afterwards, and whether
\* FileNotFoundError is raised (RentDownloader.load_rent_data found no file)
load_data(data, disk) ==
    IF data # None THEN [data |-> data, raised |-> FALSE]
    ELSE IF disk = None THEN [data |-> None, raised |-> TRUE]
    ELSE [data |-> disk, raised |-> FALSE]

\* RentAnalyzer.load_idf_data: self.data and self.data_idf afterwards
load_idf_data(data, data_idf, disk) ==
    IF data_idf # None
    THEN [data |-> data, data_idf |-> data_idf, raised |-> FALSE]
    ELSE LET l == load_data(data, disk)
         IN  IF l.raised
             THEN [data |-> l.data, data_idf |-> None, raised |-> TRUE]
             ELSE [data |-> l.data,
                   data_idf |-> Some(filter_idf_data(l.data[1])),
                   raised |-> FALSE]

NoStats ==
    [loyer_moyen_m2 |-> NaN, loyer_bas_m2 |-> NaN, loyer_haut_m2 |-> NaN,
     nb_observations_commune |-> NaN, r2_ajuste |-> NaN]

\* RentStats(...) built from the first matching row
RentStatsOf(row) ==
    [loyer_moyen_m2 |-> row["loypredm2"], loyer_bas_m2 |-> row["lwr_IPm2"],
     loyer_haut_m2 |-> row["upr_IPm2"],
     nb_observations_commune |-> row["nbobs_com"], r2_ajuste |-> row["R2_adj"]]

get_city_rent_stats_RejectBoth(data, city_name, insee_code) ==
    IF (insee_code # "") = (city_name # <<>>)
    THEN [status |-> "ValueError", stats |-> NoStats]
    ELSE LET filtered ==
                 IF insee_code # ""
                 THEN SelectSeq(data.rows, LAMBDA r : r["INSEE_C"] = insee_code)
                 ELSE SelectSeq(data.rows,
                                LAMBDA r : upper(r["LIBGEO"]) = upper(city_name))
         IN  IF filtered = <<>> THEN [status |-> "none", stats |-> NoStats]
             ELSE [status |-> "ok", stats |-> RentStatsOf(filtered[1])]

\* RentAnalyzer.get_city_rent_stats, after load_idf_data() returned data
get_city_rent_stats(data, city_name, insee_code) ==
    IF insee_code = "" /\ city_name = <<>>
    THEN [status |-> "ValueError", stats |-> NoStats]
    ELSE LET filtered ==
                 IF insee_code # ""
                 THEN SelectSeq(data.rows, LAMBDA r : r["INSEE_C"] = insee_code)
                 ELSE SelectSeq(data.rows,
                                LAMBDA r : upper(r["LIBGEO"]) = upper(city_name))
         IN  IF filtered = <<>> THEN [status |-> "none", stats |-> NoStats]
             ELSE [status |-> "ok", stats |-> RentStatsOf(filtered[1])]

(***************************************************************************)
(* PriceAnalyzer.get_city_stats                                            *)
(***************************************************************************)
FAdd(a, b) ==
    IF isna(a) \/ isna(b) THEN NaN ELSE Norm(a[1] * b[2] + b[1] * a[2], a[2] * b[2])

RECURSIVE SumPrix(_)
SumPrix(rows) ==
    IF rows = <<>> THEN Float(0) ELSE FAdd(Head(rows)["prix_m2"], SumPrix(Tail(rows)))

RECURSIVE InsertSorted(_, _)
InsertSorted(x, s) ==
    IF s = <<>> THEN <<x>>
    ELSE IF FLe(x, Head(s)) THEN <<x>> \o s
    ELSE <<Head(s)>> \o InsertSorted(x, Tail(s))

RECURSIVE SortFloats(_)
SortFloats(s) ==
    IF s = <<>> THEN <<>> ELSE InsertSorted(Head(s), SortFloats(Tail(s)))

\* A variant that adds the two middle values without halving the sum.
Median_NoHalving(s) ==
    LET t == SortFloats(s)
        n == Len(s)
    IN  IF n % 2 = 1 THEN t[(n + 1) \div 2]
        ELSE FAdd(t[n \div 2], t[n \div 2 + 1])

\* Series.median(): the middle value, or the mean of the two middle values
Median(s) ==
    LET t == SortFloats(s)
        n == Len(s)
    IN  IF n % 2 = 1 THEN t[(n + 1) \div 2]
        ELSE FDiv(FAdd(t[n \div 2], t[n \div 2 + 1]), Float(2))

NoCityStats ==
    [prix_moyen_m2 |-> NaN, prix_median_m2 |-> NaN, prix_min_m2 |-> NaN,
     prix_max_m2 |-> NaN, nombre_transactions |-> 0]

\* the columns get_city_stats reads once it has found rows
stats_columns == {"prix_m2", "surface_reelle_bati", "nombre_pieces_principales"}

\* A variant that answers None when no table is loaded.
get_city_stats_NoneWithoutData(df, city_name) ==
    IF df = None THEN [status |-> "none", stats |-> NoCityStats]
    ELSE LET city_df == SelectSeq(df[1].rows,
                                  LAMBDA r : upper(r["nom_commune"]) = upper(city_name))
             prices == {city_df[i]["prix_m2"] : i \in 1..Len(city_df)}
         IN  IF city_df = <<>> THEN [status |-> "none", stats |-> NoCityStats]
             ELSE IF ~(stats_columns \subseteq df[1].columns)
             THEN [status |-> "KeyError", stats |-> NoCityStats]
             ELSE [status |-> "ok",
                   stats |->
                     [prix_moyen_m2 |-> FDiv(SumPrix(city_df), Float(Len(city_df))),
                      prix_median_m2 |->
                          Median([i \in 1..Len(city_df) |-> city_df[i]["prix_m2"]]),
                      prix_min_m2 |-> CHOOSE x \in prices : \A y \in prices : FLe(x, y),
                      prix_max_m2 |-> CHOOSE x \in prices : \A y \in prices : FGe(x, y),
                      nombre_transactions |-> Len(city_df)]]

\* A variant that compares the stored names with the query as typed.
get_city_stats_ExactCase(df, city_name) ==
    IF df = None THEN [status |-> "ValueError", stats |-> NoCityStats]
    ELSE LET city_df == SelectSeq(df[1].rows,
                                  LAMBDA r : r["nom_commune"] = city_name)
             prices == {city_df[i]["prix_m2"] : i \in 1..Len(city_df)}
         IN  IF city_df = <<>> THEN [status |-> "none", stats |-> NoCityStats]
             ELSE IF ~(stats_columns \subseteq df[1].columns)
             THEN [status |-> "KeyError", stats |-> NoCityStats]
             ELSE [status |-> "ok",
                   stats |->
                     [prix_moyen_m2 |-> FDiv(SumPrix(city_df), Float(Len(city_df))),
                      prix_median_m2 |->
                          Median([i \in 1..Len(city_df) |-> city_df[i]["prix_m2"]]),
                      prix_min_m2 |-> CHOOSE x \in prices : \A y \in prices : FLe(x, y),
                      prix_max_m2 |-> CHOOSE x \in prices : \A y \in prices : FGe(x, y),
                      nombre_transactions |-> Len(city_df)]]

\* PriceAnalyzer.get_city_stats on self.df (None or a table): the CityStats
\* returned, None ("none"), or the exception raised.  city_df[column] raises
\* KeyError for a column the table does not carry.
get_city_stats(df, city_name) ==
    IF df = None THEN [status |-> "ValueError", stats |-> NoCityStats]
    ELSE LET city_df == SelectSeq(df[1].rows,
                                  LAMBDA r : upper(r["nom_commune"]) = upper(city_name))
             prices == {city_df[i]["prix_m2"] : i \in 1..Len(city_df)}
         IN  IF city_df = <<>> THEN [status |-> "none", stats |-> NoCityStats]
             ELSE IF ~(stats_columns \subseteq df[1].columns)
             THEN [status |-> "KeyError", stats |-> NoCityStats]
             ELSE [status |-> "ok",
                   stats |->
                     [prix_moyen_m2 |-> FDiv(SumPrix(city_df), Float(Len(city_df))),
                      prix_median_m2 |->
                          Median([i \in 1..Len(city_df) |-> city_df[i]["prix_m2"]]),
                      prix_min_m2 |-> CHOOSE x \in prices : \A y \in prices : FLe(x, y),
                      prix_max_m2 |-> CHOOSE x \in prices : \A y \in prices : FGe(x, y),
                      nombre_transactions |-> Len(city_df)]]

(***************************************************************************)
(* CombinedAnalyzer                                                        *)
(***************************************************************************)
Rendement_Monthly(loyer_m2, prix_m2) == FMul(FDiv(loyer_m2, prix_m2), Float(100))

\* (loyer * 12 / prix) * 100
Rendement(loyer_m2, prix_m2) ==
    FMul(FDiv(FMul(loyer_m2, Float(12)), prix_m2), Float(100))

\* lines 125-142 of calculate_rental_yield: the price used when the caller
\* gave none; exceptions of get_city_stats are swallowed
LookupPrix(df, data, city_name, insee_code) ==
    LET city_row == SelectSeq(data.rows, LAMBDA r : r["INSEE_C"] = insee_code)
        search_name ==
            IF city_name = <<>> /\ insee_code # "" /\ city_row # <<>>
            THEN city_row[1]["LIBGEO"]
            ELSE city_name
        price_stats == get_city_stats(df, search_name)
    IN  IF df # None /\ search_name # <<>> /\ price_stats.status = "ok"
        THEN price_stats.stats.prix_moyen_m2
        ELSE NaN

NoYield ==
    [loyer_mensuel_m2 |-> NaN, prix_achat_m2 |-> NaN, rendement_brut_pct |-> NaN]

\* CombinedAnalyzer.calculate_rental_yield, after load_idf_data() returned
\* data: the dictionary returned, None ("none"), or the exception raised
calculate_rental_yield(data, df, city_name, insee_code, prix_achat_m2) ==
    LET rent == get_city_rent_stats(data, city_name, insee_code)
        loyer == rent.stats.loyer_moyen_m2
        prix == IF isna(prix_achat_m2)
                THEN LookupPrix(df, data, city_name, insee_code)
                ELSE prix_achat_m2
    IN  IF rent.status = "ValueError" THEN [status |-> "ValueError", result |-> NoYield]
        ELSE IF rent.status = "none" \/ ~Truthy(loyer)
        THEN [status |-> "none", result |-> NoYield]
        ELSE IF isna(prix)
        THEN [status |-> "ok",
              result |-> [loyer_mensuel_m2 |-> loyer, prix_achat_m2 |-> NaN,
                          rendement_brut_pct |-> NaN]]
        ELSE IF prix[1] = 0
        THEN \* rendement_brut = (loyer_annuel_m2 / prix_achat_m2) * 100
             [status |-> "ZeroDivisionError", result |-> NoYield]
        ELSE [status |-> "ok",
              result |-> [loyer_mensuel_m2 |-> loyer, prix_achat_m2 |-> prix,
                          rendement_brut_pct |-> Rendement(loyer, prix)]]

\* A variant of the loop body that looks the name up as spelt in the rent row.
CityData_ExactCase(row, df) ==
    LET price_stats == get_city_stats_ExactCase(df, row["LIBGEO"])
        loyer == row["loypredm2"]
        found == df # None /\ price_stats.status = "ok"
        prix == IF found THEN price_stats.stats.prix_moyen_m2 ELSE NaN
    IN  [commune |-> row["LIBGEO"], code_insee |-> row["INSEE_C"],
         departement |-> row["DEP"], loyer_moyen_m2 |-> loyer,
         prix_moyen_m2 |-> prix,
         nb_transactions |->
             IF found THEN Float(price_stats.stats.nombre_transactions) ELSE NaN,
         rendement_brut_pct |->
             IF found /\ Truthy(loyer) /\ FGt(prix, Float(0))
             THEN Rendement(loyer, prix)
             ELSE NaN]

\* one iteration of the loop of get_all_cities_combined_stats: the row built
\* for one rent row.  Without a price table, when get_city_stats returns
\* None and when it raises, the price side and the yield are None (NaN).
CityData(row, df) ==
    LET price_stats == get_city_stats(df, row["LIBGEO"])
        loyer == row["loypredm2"]
        found == df # None /\ price_stats.status = "ok"
        prix == IF found THEN price_stats.stats.prix_moyen_m2 ELSE NaN
    IN  [commune |-> row["LIBGEO"], code_insee |-> row["INSEE_C"],
         departement |-> row["DEP"], loyer_moyen_m2 |-> loyer,
         prix_moyen_m2 |-> prix,
         nb_transactions |->
             IF found THEN Float(price_stats.stats.nombre_transactions) ELSE NaN,
         rendement_brut_pct |->
             IF found /\ Truthy(loyer) /\ FGt(prix, Float(0))
             THEN Rendement(loyer, prix)
             ELSE NaN]

\* A variant that leaves out the communes whose price lookup gave nothing.
get_all_cities_combined_stats_SkipUnpriced(data, df, department_code) ==
    LET rent_data ==
            IF department_code # ""
            THEN SelectSeq(data.rows, LAMBDA r : r["DEP"] = department_code)
            ELSE data.rows
    IN  SelectSeq([i \in 1..Len(rent_data) |-> CityData(rent_data[i], df)],
                  LAMBDA c : notna(c.prix_moyen_m2))

\* CombinedAnalyzer.get_all_cities_combined_stats, after load_idf_data()
\* returned data: the rows of the DataFrame returned
get_all_cities_combined_stats(data, df, department_code) ==
    LET rent_data ==
            IF department_code # ""
            THEN SelectSeq(data.rows, LAMBDA r : r["DEP"] = department_code)
            ELSE data.rows
    IN  [i \in 1..Len(rent_data) |-> CityData(rent_data[i], df)]

NoCall == [op |-> "none"]

NotCalled == [status |-> "not_called", table |-> Table({}, <<>>), divided |-> <<>>]

(***************************************************************************)
(* Raw DVF tables.  Rows vary around one valid sale: monetary value and    *)
(* surface (missing, negative, zero, on and around the thresholds),        *)
(* mutation type, commune-name spelling, date text, and a raw-only column. *)
(***************************************************************************)
MaxRows == 2

raw_columns ==
    {"id_mutation", "date_mutation", "nature_mutation", "valeur_fonciere",
     "code_commune", "nom_commune", "code_departement", "type_local",
     "surface_reelle_bati", "nombre_pieces_principales"}

BaseRow ==
    [id_mutation |-> "m1", date_mutation |-> "2023-01-05",
     nature_mutation |-> "Vente", valeur_fonciere |-> Float(4500),
     code_commune |-> "75056", nom_commune |-> <<"P", "a">>,
     code_departement |-> "75", type_local |-> "Appartement",
     surface_reelle_bati |-> Float(9), nombre_pieces_principales |-> Float(2)]

RawValeurs == {NaN, Float(-4500), Float(0), Float(4500), Float(360000), Float(360001)}

RawSurfaces == {NaN, Float(0), Float(8), Float(9), Float(10)}

RawNames == {<<"p", "a">>, <<"P", "A">>, <<" ", "P", "a", " ">>, <<"P", "r">>}

RawDates == {"05/01/2023", "n/a", "??"}

RawRows ==
    {[BaseRow EXCEPT !["valeur_fonciere"] = v, !["surface_reelle_bati"] = s] :
        v \in RawValeurs, s \in RawSurfaces}
    \cup {[BaseRow EXCEPT !["nature_mutation"] = "Echange"]}
    \cup {[BaseRow EXCEPT !["nom_commune"] = n] : n \in RawNames}
    \cup {[BaseRow EXCEPT !["date_mutation"] = d] : d \in RawDates}
    \cup {[BaseRow EXCEPT !["id_mutation"] = "m2"]}

RawTables ==
    {Table(raw_columns, rows) :
        rows \in UNION {[1..n -> RawRows] : n \in 0..MaxRows}}

AnalyzersIdle ==
    /\ disk_rent = None
    /\ ra_data = None
    /\ ra_data_idf = None
    /\ pa_df = None
    /\ disk_clean = None

NoUrl == [kind |-> "none", url |-> "", urls |-> <<>>]

DownloadersIdle ==
    /\ fs = <<>>
    /\ rent_custom_urls = NoUrl
    /\ rent_csv_urls = NoUrl

InitClean ==
    /\ df_raw \in RawTables
    /\ clean_result = NotCalled
    /\ reclean_result = NotCalled
    /\ AnalyzersIdle
    /\ DownloadersIdle
    /\ last_call = NoCall

\* cleaner.clean_dvf_data(df_raw); the input is copied, never modified
Clean ==
    /\ clean_result.status = "not_called"
    /\ clean_result' = clean_dvf_data(df_raw)
    /\ UNCHANGED <<df_raw, reclean_result, analyzerVars, downloadVars, last_call>>

\* cleaner.clean_dvf_data applied to the table the first call returned
Reclean ==
    /\ clean_result.status = "ok"
    /\ reclean_result.status = "not_called"
    /\ reclean_result' = clean_dvf_data(clean_result.table)
    /\ UNCHANGED <<df_raw, clean_result, analyzerVars, downloadVars, last_call>>

NextClean == Clean \/ Reclean

SpecClean == InitClean /\ [][NextClean]_vars

Rows(t) == {t.rows[i] : i \in 1..Len(t.rows)}

\* C1: clean_dvf_data returns a table, it never raises, for every input table
\* with the required columns (zero rows and all rows filtered out included)
C1_CleanNeverRaises == clean_result.status \in {"not_called", "ok"}

\* C2: cleaning is idempotent: cleaning the output of a completed cleaning
\* completes and yields the same row set
C2_CleanIdempotent ==
    (clean_result.status = "ok" /\ reclean_result.status # "not_called")
        => /\ reclean_result.status = "ok"
           /\ Rows(reclean_result.table) = Rows(clean_result.table)

CleanedWithinBounds(res) ==
    /\ \A r \in Rows(res.table) :
          /\ FGe(r["prix_m2"], Float(MIN_PRICE_M2))
          /\ FLe(r["prix_m2"], Float(MAX_PRICE_M2))
          /\ FGe(r["surface_reelle_bati"], Float(MIN_SURFACE))
    /\ \A i \in 1..Len(res.divided) :
          notna(res.divided[i]) /\ FGe(res.divided[i], Float(MIN_SURFACE))

\* C3: every output row has MIN_PRICE_M2 <= prix_m2 <= MAX_PRICE_M2 and
\* surface >= MIN_SURFACE, and the division is only performed on rows whose
\* surface is present and >= MIN_SURFACE
C3_CleanedWithinBounds ==
    /\ clean_result.status = "ok" => CleanedWithinBounds(clean_result)
    /\ reclean_result.status = "ok" => CleanedWithinBounds(reclean_result)

\* C3 witness: a table holding a zero-surface row and a row priced exactly
\* MIN_PRICE_M2 was cleaned, and the boundary row was kept
C3_Witness ==
    /\ clean_result.status = "ok"
    /\ \E r \in Rows(df_raw) : r["surface_reelle_bati"] = Float(0)
    /\ \E r \in Rows(clean_result.table) : FEq(r["prix_m2"], Float(MIN_PRICE_M2))

NoDuplicateRows(t) ==
    \A i, j \in 1..Len(t.rows) : i # j => t.rows[i] # t.rows[j]

\* C4: the output holds no two rows identical across all retained columns,
\* compared after projection and after commune-name normalisation
C4_NoDuplicates ==
    /\ clean_result.status = "ok" => NoDuplicateRows(clean_result.table)
    /\ reclean_result.status = "ok" => NoDuplicateRows(reclean_result.table)

\* C4 witness: two raw rows that differ (only in the spelling of the commune
\* name or in a dropped column) were cleaned into a single row
C4_Witness ==
    /\ clean_result.status = "ok"
    /\ Len(df_raw.rows) = 2
    /\ df_raw.rows[1] # df_raw.rows[2]
    /\ df_raw.rows[1]["nom_commune"] # df_raw.rows[2]["nom_commune"]
    /\ Len(clean_result.table.rows) = 1

(***************************************************************************)
(* The analyzers: a CombinedAnalyzer with its RentAnalyzer (lazy table)    *)
(* and its PriceAnalyzer (table loaded by the constructor, or None).       *)
(***************************************************************************)
MaxRentRows == 2

MaxPriceRows == 1

rent_columns ==
    {"LIBGEO", "INSEE_C", "DEP", "loypredm2", "lwr_IPm2", "upr_IPm2",
     "nbobs_com", "R2_adj"}

BaseRent ==
    [LIBGEO |-> <<"P", "a">>, INSEE_C |-> "75056", DEP |-> "75",
     loypredm2 |-> <<285, 10>>, lwr_IPm2 |-> Float(26), upr_IPm2 |-> Float(31),
     nbobs_com |-> Float(150), R2_adj |-> <<75, 100>>]

RentRows ==
    {BaseRent,
     [BaseRent EXCEPT !["loypredm2"] = Float(0)],
     [BaseRent EXCEPT !["loypredm2"] = NaN],
     [BaseRent EXCEPT !["LIBGEO"] = <<"P", "r">>, !["INSEE_C"] = "92050",
                      !["DEP"] = "92", !["loypredm2"] = <<223, 10>>],
     [BaseRent EXCEPT !["LIBGEO"] = <<"R", "a">>, !["INSEE_C"] = "60057",
                      !["DEP"] = "60"]}

RentTables ==
    {Table(rent_columns, rows) :
        rows \in UNION {[1..n -> RentRows] : n \in 0..MaxRentRows}}

\* the columns of a cleaned table that the analyzers read
price_columns ==
    {"nom_commune", "code_departement", "prix_m2", "surface_reelle_bati",
     "type_local", "nombre_pieces_principales"}

\* the columns of the table built by tests/test_price_analyzer.py
fixture_columns ==
    {"nom_commune", "code_departement", "prix_m2", "surface_reelle_bati",
     "valeur_fonciere", "type_local"}

PriceRow(name, dept, prix) ==
    [nom_commune |-> name, code_departement |-> dept, prix_m2 |-> Float(prix),
     surface_reelle_bati |-> Float(50), valeur_fonciere |-> Float(prix * 50),
     type_local |-> "Appartement", nombre_pieces_principales |-> 2]

\* df[columns]
Restrict(row, columns) == [c \in columns |-> row[c]]

PriceTable(columns, rows) ==
    Table(columns, [i \in 1..Len(rows) |-> Restrict(rows[i], columns)])

PriceRows ==
    {PriceRow(<<"P", "a">>, "75", 10000),
     PriceRow(<<"P", "A">>, "75", 12000),
     PriceRow(<<"P", "a">>, "75", 0)}

\* "PARIS" and "Paris" transactions next to another commune
JoinRows ==
    <<PriceRow(<<"P", "A">>, "75", 12000), PriceRow(<<"P", "a">>, "75", 10000),
      PriceRow(<<"P", "r">>, "92", 8000)>>

PriceTables ==
    {PriceTable(price_columns, rows) :
        rows \in UNION {[1..n -> PriceRows] : n \in 0..MaxPriceRows}}
    \cup {PriceTable(price_columns, JoinRows), PriceTable(fixture_columns, JoinRows)}

CityArgs == {<<>>, <<"p", "a">>}

InseeArgs == {"", "92050"}

PrixArgs == {NaN, Float(0), Float(10000)}

DeptArgs == {"", "75"}

CleanerIdle ==
    /\ df_raw = Table({}, <<>>)
    /\ clean_result = NotCalled
    /\ reclean_result = NotCalled

InitAnalyzers ==
    /\ disk_rent \in {None} \cup {Some(t) : t \in RentTables}
    /\ ra_data = None
    /\ ra_data_idf = None
    /\ disk_clean \in {None} \cup {Some(t) : t \in PriceTables}
    /\ pa_df = disk_clean
    /\ last_call = NoCall
    /\ CleanerIdle
    /\ DownloadersIdle

\* rent_analyzer.get_city_rent_stats(city_name, insee_code)
GetCityRentStats(city_name, insee_code) ==
    LET l == load_idf_data(ra_data, ra_data_idf, disk_rent)
        r == get_city_rent_stats(l.data_idf[1], city_name, insee_code)
    IN  /\ ra_data' = l.data
        /\ ra_data_idf' = l.data_idf
        /\ last_call' =
             [op |-> "get_city_rent_stats", city_name |-> city_name,
              insee_code |-> insee_code,
              status |-> IF l.raised THEN "FileNotFoundError" ELSE r.status,
              stats |-> IF l.raised THEN NoStats ELSE r.stats]
        /\ UNCHANGED <<disk_rent, pa_df, disk_clean, cleanVars, downloadVars>>

\* combined.calculate_rental_yield(city_name, insee_code, prix_achat_m2)
CalculateRentalYield(city_name, insee_code, prix_achat_m2) ==
    LET l == load_idf_data(ra_data, ra_data_idf, disk_rent)
        r == calculate_rental_yield(l.data_idf[1], pa_df, city_name, insee_code,
                                    prix_achat_m2)
    IN  /\ ra_data' = l.data
        /\ ra_data_idf' = l.data_idf
        /\ last_call' =
             [op |-> "calculate_rental_yield", city_name |-> city_name,
              insee_code |-> insee_code, prix_achat_m2 |-> prix_achat_m2,
              status |-> IF l.raised THEN "FileNotFoundError" ELSE r.status,
              result |-> IF l.raised THEN NoYield ELSE r.result]
        /\ UNCHANGED <<disk_rent, pa_df, disk_clean, cleanVars, downloadVars>>

\* combined.get_all_cities_combined_stats(department_code)
GetAllCitiesCombinedStats(department_code) ==
    LET l == load_idf_data(ra_data, ra_data_idf, disk_rent)
    IN  /\ ra_data' = l.data
        /\ ra_data_idf' = l.data_idf
        /\ last_call' =
             [op |-> "get_all_cities_combined_stats",
              department_code |-> department_code,
              status |-> IF l.raised THEN "FileNotFoundError" ELSE "ok",
              rows |-> IF l.raised THEN <<>>
                       ELSE get_all_cities_combined_stats(l.data_idf[1], pa_df,
                                                          department_code)]
        /\ UNCHANGED <<disk_rent, pa_df, disk_clean, cleanVars, downloadVars>>

NextAnalyzers ==
    \/ \E c \in CityArgs, i \in InseeArgs : GetCityRentStats(c, i)
    \/ \E c \in CityArgs, i \in InseeArgs, p \in PrixArgs : CalculateRentalYield(c, i, p)
    \/ \E d \in DeptArgs : GetAllCitiesCombinedStats(d)

SpecAnalyzers == InitAnalyzers /\ [][NextAnalyzers]_vars

IsInf(x) == x[2] = 0 /\ x[1] # 0

\* C5: every yield computation reports a null yield when the sale price is 0
\* or missing; none raises a division error or returns infinity
C5_NullYieldOnZeroPrice ==
    /\ last_call.op = "calculate_rental_yield" =>
          /\ last_call.status # "ZeroDivisionError"
          /\ ~IsInf(last_call.result.rendement_brut_pct)
          /\ (last_call.status = "ok" /\ ~Truthy(last_call.result.prix_achat_m2))
                => isna(last_call.result.rendement_brut_pct)
    /\ last_call.op = "get_all_cities_combined_stats" =>
          \A i \in 1..Len(last_call.rows) :
              /\ ~IsInf(last_call.rows[i].rendement_brut_pct)
              /\ ~Truthy(last_call.rows[i].prix_moyen_m2)
                    => isna(last_call.rows[i].rendement_brut_pct)

\* y = rent x 12 / price x 100, stated on the numerators and denominators
YieldIs(y, rent, price) ==
    /\ y[2] # 0
    /\ FEq(y, Norm(rent[1] * 12 * 100 * price[2], rent[2] * price[1]))

Supplied(city_name, insee_code) ==
    (IF city_name # <<>> THEN 1 ELSE 0) + (IF insee_code # "" THEN 1 ELSE 0)

\* C7: get_city_rent_stats raises whenever the number of criteria supplied
\* among {city_name, insee_code} is not exactly one (neither, or both)
C7_RaisesUnlessExactlyOne ==
    (last_call.op = "get_city_rent_stats"
        /\ Supplied(last_call.city_name, last_call.insee_code) # 1)
        => last_call.status \in {"ValueError", "FileNotFoundError"}

\* C7 amended: once the rent table is loaded, get_city_rent_stats raises
\* ValueError exactly when neither criterion is supplied; when both are
\* supplied it does not raise and answers for the row with that INSEE code
C7_RaisesIffNoCriterion ==
    (last_call.op = "get_city_rent_stats" /\ last_call.status # "FileNotFoundError")
        => /\ last_call.status = "ValueError"
                <=> Supplied(last_call.city_name, last_call.insee_code) = 0
           /\ Supplied(last_call.city_name, last_call.insee_code) = 2 =>
                LET rows == ra_data_idf[1].rows
                    hits == {i \in 1..Len(rows) :
                                rows[i]["INSEE_C"] = last_call.insee_code}
                IN  IF hits = {} THEN last_call.status = "none"
                    ELSE /\ last_call.status = "ok"
                         /\ \E i \in hits :
                               /\ \A j \in hits : i <= j
                               /\ last_call.stats = RentStatsOf(rows[i])

\* C7 witness: a call with both criteria, naming one commune and giving the
\* INSEE code of another, returned the statistics of the INSEE code's commune
C7_Witness ==
    /\ last_call.op = "get_city_rent_stats"
    /\ last_call.city_name = <<"p", "a">>
    /\ last_call.insee_code = "92050"
    /\ last_call.status = "ok"
    /\ \E i \in 1..Len(ra_data_idf[1].rows) :
          upper(ra_data_idf[1].rows[i]["LIBGEO"]) = upper(last_call.city_name)
    /\ last_call.stats.loyer_moyen_m2 = <<223, 10>>

(***************************************************************************)
(* Downloaders (src/data/rent_downloader.py, src/data/dvf_downloader.py).  *)
(* fs maps each file of data_dir to its content: "absent", "old" (present  *)
(* before the call under study), "new" (completely written by a download), *)
(* "partial" (opened for writing and left incomplete).  File names and     *)
(* configured URLs are keyed by the year, and calls for different years    *)
(* touch disjoint files and configuration entries, so one year is followed *)
(* and rent_custom_urls / rent_csv_urls hold the configuration entries of  *)
(* that year (NoUrl: the year is not a key of the dict).                   *)
(* A URL specification is NoUrl (None, "" or {}: all falsy), a single URL, *)
(* or an ordered mapping property type -> URL.                             *)
(***************************************************************************)
UrlStr(u) == [kind |-> "str", url |-> u, urls |-> <<>>]

UrlDict(pairs) == [kind |-> "dict", url |-> "", urls |-> pairs]

RENT_CSV_URLS ==
    UrlDict(<< <<"appartements", "RENT_CSV_URL_2024_APPARTEMENTS">>,
               <<"maisons", "RENT_CSV_URL_2024_MAISONS">> >>)

DVF_BASE_URL == "https://files.data.gouv.fr/geo-dvf/latest/csv"

\* carte_loyers_{year}.csv (property_type "") or
\* carte_loyers_{year}_{property_type}.csv
RentFile(property_type) == <<"carte_loyers", property_type>>

RentFiles == {RentFile(t) : t \in {"", "appartements", "maisons"}}

\* What the transport does on one fetch:
\*   ok                    the body is received completely
\*   request_error         requests.get / raise_for_status raises a
\*                         RequestException, nothing written yet
\*   transfer_error        iter_content raises a RequestException after the
\*                         target was opened for writing
\*   other_error           requests.get raises an exception that is not a
\*                         RequestException
\*   other_transfer_error  a non-RequestException (e.g. OSError on write)
\*                         after the target was opened for writing
FetchOutcomes ==
    {"ok", "request_error", "transfer_error", "other_error",
     "other_transfer_error"}

\* RentDownloader._download_file: only RequestException is caught.
download_file(files, url, output_file, outcome) ==
    CASE outcome = "ok" ->
            [ret |-> "path", files |-> [files EXCEPT ![output_file] = "new"]]
      [] outcome = "request_error" ->
            \* except: output_file.exists() -> unlink
            [ret |-> "none", files |-> [files EXCEPT ![output_file] = "absent"]]
      [] outcome = "transfer_error" ->
            [ret |-> "none", files |-> [files EXCEPT ![output_file] = "absent"]]
      [] outcome = "other_error" ->
            [ret |-> "raised", files |-> files]
      [] outcome = "other_transfer_error" ->
            [ret |-> "raised", files |-> [files EXCEPT ![output_file] = "partial"]]

\* A variant in which the configured custom URL wins over the argument.
urls_to_download_ConfigFirst(custom_url, custom_cfg, default_cfg) ==
    IF custom_cfg.kind # "none" THEN custom_cfg
    ELSE IF custom_url.kind # "none" THEN custom_url
    ELSE default_cfg

\* The URL priority of download_rent_data: argument, RENT_CUSTOM_URLS[year],
\* RENT_CSV_URLS[year], else nothing.
urls_to_download(custom_url, custom_cfg, default_cfg) ==
    IF custom_url.kind # "none" THEN custom_url
    ELSE IF custom_cfg.kind # "none" THEN custom_cfg
    ELSE default_cfg

\* The loop of download_rent_data over the items of a dict of URLs, in
\* insertion order; acc carries downloaded_files and the fetches made so far.
RECURSIVE download_each(_, _, _, _, _)
download_each(files, urls, force, outcomes, acc) ==
    IF urls = <<>>
    THEN [status  |-> IF acc.paths = {} THEN "none" ELSE "dict",
          paths   |-> acc.paths,
          files   |-> files,
          fetched |-> acc.fetched]
    ELSE LET property_type == urls[1][1]
             url           == urls[1][2]
             output_file   == RentFile(property_type)
             result        == download_file(files, url, output_file,
                                            outcomes[property_type])
             log           == Append(acc.fetched,
                                     [url |-> url, file |-> output_file,
                                      outcome |-> outcomes[property_type]])
         IN  IF files[output_file] # "absent" /\ ~force
             THEN download_each(files, Tail(urls), force, outcomes,
                                [acc EXCEPT !.paths = @ \cup {output_file}])
             ELSE IF result.ret = "path"
             THEN download_each(result.files, Tail(urls), force, outcomes,
                                [paths   |-> acc.paths \cup {output_file},
                                 fetched |-> log])
             ELSE [status  |-> result.ret,
                   paths   |-> {},
                   files   |-> result.files,
                   fetched |-> log]

\* A variant that fetches the single file without looking for a cached one.
download_rent_data_NoCacheCheck(files, custom_cfg, default_cfg, custom_url, force, outcomes) ==
    LET urls        == urls_to_download(custom_url, custom_cfg, default_cfg)
        output_file == RentFile("")
        result      == download_file(files, urls.url, output_file, outcomes[""])
    IN  IF urls.kind = "none"
        THEN [status |-> "none", paths |-> {}, files |-> files, fetched |-> <<>>]
        ELSE IF urls.kind = "dict"
        THEN download_each(files, urls.urls, force, outcomes,
                           [paths |-> {}, fetched |-> <<>>])
        ELSE [status  |-> result.ret,
              paths   |-> IF result.ret = "path" THEN {output_file} ELSE {},
              files   |-> result.files,
              fetched |-> <<[url |-> urls.url, file |-> output_file,
                             outcome |-> outcomes[""]]>>]

download_rent_data(files, custom_cfg, default_cfg, custom_url, force, outcomes) ==
    LET urls        == urls_to_download(custom_url, custom_cfg, default_cfg)
        output_file == RentFile("")
        result      == download_file(files, urls.url, output_file, outcomes[""])
    IN  IF urls.kind = "none"
        THEN [status |-> "none", paths |-> {}, files |-> files, fetched |-> <<>>]
        ELSE IF urls.kind = "dict"
        THEN download_each(files, urls.urls, force, outcomes,
                           [paths |-> {}, fetched |-> <<>>])
        ELSE IF files[output_file] # "absent" /\ ~force
        THEN [status |-> "path", paths |-> {output_file}, files |-> files,
              fetched |-> <<>>]
        ELSE [status  |-> result.ret,
              paths   |-> IF result.ret = "path" THEN {output_file} ELSE {},
              files   |-> result.files,
              fetched |-> <<[url |-> urls.url, file |-> output_file,
                             outcome |-> outcomes[""]]>>]

RentUrlArgs ==
    {NoUrl,
     UrlStr("https://custom/loyers.csv"),
     UrlDict(<< <<"appartements", "https://custom/appartements.csv">>,
                <<"maisons", "https://custom/maisons.csv">> >>)}

RentCustomConfigs == {NoUrl, UrlStr("https://config/loyers.csv")}

RentDefaultConfigs == {NoUrl, RENT_CSV_URLS}

InitRentDownload ==
    /\ fs \in [RentFiles -> {"absent", "old"}]
    /\ rent_custom_urls \in RentCustomConfigs
    /\ rent_csv_urls \in RentDefaultConfigs
    /\ last_call = NoCall
    /\ CleanerIdle
    /\ AnalyzersIdle

DownloadRentData(custom_url, force, outcomes) ==
    LET r == download_rent_data(fs, rent_custom_urls, rent_csv_urls,
                                custom_url, force, outcomes)
    IN  /\ fs' = r.files
        /\ last_call' = [op         |-> "download_rent_data",
                         custom_url |-> custom_url,
                         force      |-> force,
                         status     |-> r.status,
                         paths      |-> r.paths,
                         fetched    |-> r.fetched]
        /\ UNCHANGED <<rent_custom_urls, rent_csv_urls, cleanVars, analyzerVars>>

NextRentDownload ==
    \E custom_url \in RentUrlArgs, force \in BOOLEAN,
       outcomes \in [{"", "appartements", "maisons"} -> FetchOutcomes] :
        DownloadRentData(custom_url, force, outcomes)

SpecRentDownload == InitRentDownload /\ [][NextRentDownload]_vars

\* C8: whenever a fetch made by download_rent_data fails, with whatever error
\* the transport raises, the call returns null and no file remains at the
\* target path of that fetch.
C8_RentFetchFailureReturnsNull ==
    last_call.op = "download_rent_data" =>
        \A i \in DOMAIN last_call.fetched :
            last_call.fetched[i].outcome # "ok" =>
                /\ last_call.status = "none"
                /\ fs[last_call.fetched[i].file] = "absent"

(***************************************************************************)
(* DVFDownloader.download_department_data.                                 *)
(***************************************************************************)
DvfDepartments == {"75", "92"}

DvfYears == {"2023"}

CsvFile(department, year) == <<"dvf", year, department, "csv">>

GzFile(department, year) == <<"dvf", year, department, "csv.gz">>

DvfFiles ==
    {CsvFile(d, y) : d \in DvfDepartments, y \in DvfYears}
        \cup {GzFile(d, y) : d \in DvfDepartments, y \in DvfYears}

dvf_url(department, year) == <<DVF_BASE_URL, year, "departements", department>>

\* The fetch outcomes, and a decompression that fails after the .csv.gz was
\* written completely and the .csv was opened for writing.
DvfOutcomes == FetchOutcomes \cup {"decompress_error"}

\* The files as the try block leaves them when it stops with this outcome.
try_download(files, gz_file, output_file, outcome) ==
    CASE outcome = "ok" ->
            [files EXCEPT ![gz_file] = "absent", ![output_file] = "new"]
      [] outcome \in {"request_error", "other_error"} ->
            files
      [] outcome \in {"transfer_error", "other_transfer_error"} ->
            [files EXCEPT ![gz_file] = "partial"]
      [] outcome = "decompress_error" ->
            [files EXCEPT ![gz_file] = "new", ![output_file] = "partial"]

\* Both except clauses: unlink gz_file and output_file when they exist.
cleanup(files, gz_file, output_file) ==
    [files EXCEPT ![gz_file] = "absent", ![output_file] = "absent"]

\* A variant whose handlers cover RequestException only.
download_department_data_RequestErrorsOnly(files, department, year, custom_url, outcome) ==
    LET output_file == CsvFile(department, year)
        gz_file     == GzFile(department, year)
        log         == <<[url |-> dvf_url(department, year), outcome |-> outcome]>>
        after       == try_download(files, gz_file, output_file, outcome)
    IN  IF custom_url # <<>>
        THEN [status |-> "TypeError", files |-> files, fetched |-> <<>>]
        ELSE IF files[output_file] # "absent"
        THEN [status |-> "path", files |-> files, fetched |-> <<>>]
        ELSE IF outcome = "ok"
        THEN [status |-> "path", files |-> after, fetched |-> log]
        ELSE IF outcome \in {"request_error", "transfer_error"}
        THEN [status |-> "none", files |-> cleanup(after, gz_file, output_file),
              fetched |-> log]
        ELSE [status |-> "raised", files |-> after, fetched |-> log]

\* A variant without the early return for a file that exists.
download_department_data_NoCacheCheck(files, department, year, custom_url, outcome) ==
    LET output_file == CsvFile(department, year)
        gz_file     == GzFile(department, year)
        log         == <<[url |-> dvf_url(department, year), outcome |-> outcome]>>
        after       == try_download(files, gz_file, output_file, outcome)
    IN  IF custom_url # <<>>
        THEN [status |-> "TypeError", files |-> files, fetched |-> <<>>]
        ELSE IF outcome = "ok"
        THEN [status |-> "path", files |-> after, fetched |-> log]
        ELSE [status |-> "none", files |-> cleanup(after, gz_file, output_file),
              fetched |-> log]

\* download_department_data(self, department, year): the signature has no
\* custom_url parameter, so a call that passes one fails to bind its
\* arguments (TypeError) before the body runs.  custom_url = <<>> is a call
\* without that keyword.
download_department_data(files, department, year, custom_url, outcome) ==
    LET output_file == CsvFile(department, year)
        gz_file     == GzFile(department, year)
        log         == <<[url |-> dvf_url(department, year), outcome |-> outcome]>>
        after       == try_download(files, gz_file, output_file, outcome)
    IN  IF custom_url # <<>>
        THEN [status |-> "TypeError", files |-> files, fetched |-> <<>>]
        ELSE IF files[output_file] # "absent"
        THEN [status |-> "path", files |-> files, fetched |-> <<>>]
        ELSE IF outcome = "ok"
        THEN [status |-> "path", files |-> after, fetched |-> log]
        ELSE [status |-> "none", files |-> cleanup(after, gz_file, output_file),
              fetched |-> log]

DvfUrlArgs == {<<>>, <<"https://custom-server.com/paris.csv.gz">>}

InitDvfDownload ==
    /\ fs \in [DvfFiles -> {"absent", "old"}]
    /\ rent_custom_urls = NoUrl
    /\ rent_csv_urls = NoUrl
    /\ last_call = NoCall
    /\ CleanerIdle
    /\ AnalyzersIdle

DownloadDepartmentData(department, year, custom_url, outcome) ==
    LET r == download_department_data(fs, department, year, custom_url, outcome)
    IN  /\ fs' = r.files
        /\ last_call' = [op         |-> "download_department_data",
                         department |-> department,
                         year       |-> year,
                         custom_url |-> custom_url,
                         status     |-> r.status,
                         fetched    |-> r.fetched]
        /\ UNCHANGED <<rent_custom_urls, rent_csv_urls, cleanVars, analyzerVars>>

NextDvfDownload ==
    \E department \in DvfDepartments, year \in DvfYears,
       custom_url \in DvfUrlArgs, outcome \in DvfOutcomes :
        DownloadDepartmentData(department, year, custom_url, outcome)

SpecDvfDownload == InitDvfDownload /\ [][NextDvfDownload]_vars

\* C9: when the fetch or the decompression of download_department_data
\* fails, the call returns null and neither the .csv.gz nor the .csv of that
\* department and year exists afterwards.
C9_DvfFailureLeavesNoFile ==
    (/\ last_call.op = "download_department_data"
     /\ last_call.fetched # <<>>
     /\ last_call.fetched[1].outcome # "ok") =>
        /\ last_call.status = "none"
        /\ fs[CsvFile(last_call.department, last_call.year)] = "absent"
        /\ fs[GzFile(last_call.department, last_call.year)] = "absent"

\* A decompression failed: the complete .csv.gz and the partial .csv were
\* removed and null was returned.
C9_Witness ==
    /\ last_call.op = "download_department_data"
    /\ last_call.fetched # <<>>
    /\ last_call.fetched[1].outcome = "decompress_error"
    /\ last_call.status = "none"
    /\ fs[CsvFile(last_call.department, last_call.year)] = "absent"
    /\ fs[GzFile(last_call.department, last_call.year)] = "absent"

\* C10: download_department_data(department, year, custom_url=u) makes its
\* single fetch against u and returns a path when the fetch succeeds, null
\* when it fails.
C10_DvfCustomUrlFetched ==
    (/\ last_call.op = "download_department_data"
     /\ last_call.custom_url # <<>>) =>
        /\ last_call.status \in {"path", "none"}
        /\ last_call.fetched # <<>> =>
              /\ last_call.fetched[1].url = last_call.custom_url
              /\ (last_call.status = "path") <=> (last_call.fetched[1].outcome = "ok")

(***************************************************************************)
(* Loading cached data: PriceAnalyzer.load_data, RentAnalyzer.load_data,   *)
(* DVFDownloader.load_idf_data and the constructor of CombinedAnalyzer.    *)
(* disk_clean is what DataCleaner.load_cleaned_data(year) finds, disk_rent *)
(* what RentDownloader.load_rent_data(year) finds (None: no file, it       *)
(* raises FileNotFoundError), fs holds the raw DVF files of the year.      *)
(***************************************************************************)
\* PriceAnalyzer.load_data: self.df afterwards and whether it raises
price_load_data(disk) == [df |-> disk, raised |-> disk = None]

\* CombinedAnalyzer.__init__: price_analyzer.df afterwards; the
\* FileNotFoundError of load_data is caught and logged as a warning
combined_init(disk) == [df |-> price_load_data(disk).df, raised |-> FALSE]

\* DVFDownloader.load_idf_data: the departments whose file was read, and
\* whether FileNotFoundError is raised.  unreadable: the departments whose
\* pd.read_csv fails (the error is logged and the file skipped).
dvf_load_idf_data(files, year, unreadable) ==
    LET dfs == {d \in DvfDepartments :
                   files[CsvFile(d, year)] # "absent" /\ d \notin unreadable}
    IN  [departments |-> dfs, raised |-> dfs = {}]

LoadRentTables == {Table(rent_columns, <<BaseRent>>)}

InitLoad ==
    /\ disk_clean \in {None} \cup {Some(t) : t \in PriceTables}
    /\ disk_rent \in {None} \cup {Some(t) : t \in LoadRentTables}
    /\ fs \in [DvfFiles -> {"absent", "old"}]
    /\ pa_df = None
    /\ ra_data = None
    /\ ra_data_idf = None
    /\ rent_custom_urls = NoUrl
    /\ rent_csv_urls = NoUrl
    /\ last_call = NoCall
    /\ CleanerIdle

Status(raised) == IF raised THEN "FileNotFoundError" ELSE "ok"

\* PriceAnalyzer().load_data(year)
PriceLoadData ==
    LET r == price_load_data(disk_clean)
    IN  /\ pa_df' = r.df
        /\ last_call' = [op |-> "PriceAnalyzer.load_data", status |-> Status(r.raised)]
        /\ UNCHANGED <<disk_clean, disk_rent, ra_data, ra_data_idf, cleanVars,
                       downloadVars>>

\* RentAnalyzer(year).load_data()
RentLoadData ==
    LET r == load_data(ra_data, disk_rent)
    IN  /\ ra_data' = r.data
        /\ last_call' = [op |-> "RentAnalyzer.load_data", status |-> Status(r.raised)]
        /\ UNCHANGED <<disk_clean, disk_rent, pa_df, ra_data_idf, cleanVars,
                       downloadVars>>

\* DVFDownloader().load_idf_data(year)
DvfLoadIdfData(year, unreadable) ==
    LET r == dvf_load_idf_data(fs, year, unreadable)
    IN  /\ last_call' = [op |-> "DVFDownloader.load_idf_data", year |-> year,
                         departments |-> r.departments,
                         status |-> Status(r.raised)]
        /\ UNCHANGED <<analyzerVars, cleanVars, downloadVars>>

\* CombinedAnalyzer(dvf_year, rent_year)
NewCombinedAnalyzer ==
    LET r == combined_init(disk_clean)
    IN  /\ pa_df' = r.df
        /\ ra_data' = None
        /\ ra_data_idf' = None
        /\ last_call' = [op |-> "CombinedAnalyzer", status |-> Status(r.raised)]
        /\ UNCHANGED <<disk_clean, disk_rent, cleanVars, downloadVars>>

NextLoad ==
    \/ PriceLoadData
    \/ RentLoadData
    \/ \E year \in DvfYears, unreadable \in SUBSET DvfDepartments :
           DvfLoadIdfData(year, unreadable)
    \/ NewCombinedAnalyzer

SpecLoad == InitLoad /\ [][NextLoad]_vars

\* C11: every operation that needs cached or cleaned data of a year that was
\* never downloaded or cleaned (PriceAnalyzer.load_data, RentAnalyzer.load_data,
\* DVFDownloader.load_idf_data, constructing a CombinedAnalyzer) signals the
\* missing-input error; none completes normally.
C11_MissingInputSignalled ==
    /\ (last_call.op \in {"PriceAnalyzer.load_data", "CombinedAnalyzer"}
            /\ disk_clean = None)
         => last_call.status = "FileNotFoundError"
    /\ (last_call.op = "RentAnalyzer.load_data" /\ disk_rent = None)
         => last_call.status = "FileNotFoundError"
    /\ (last_call.op = "DVFDownloader.load_idf_data"
            /\ \A d \in DvfDepartments : fs[CsvFile(d, last_call.year)] = "absent")
         => last_call.status = "FileNotFoundError"

(***************************************************************************)
(* PriceAnalyzer.analyze_all_cities / get_department_stats and             *)
(* RentAnalyzer.get_department_statistics.                                 *)
(***************************************************************************)
\* Series.unique(): the distinct values in order of first appearance
RECURSIVE Unique(_)
Unique(s) ==
    IF s = <<>> THEN <<>>
    ELSE LET front == Unique(SubSeq(s, 1, Len(s) - 1))
             last  == s[Len(s)]
         IN  IF \E i \in 1..Len(front) : front[i] = last
             THEN front ELSE Append(front, last)

\* sort_values("prix_moyen_m2", ascending=False); rows of equal mean keep
\* their order
RECURSIVE SortByPrixDesc(_)
SortByPrixDesc(rows) ==
    IF rows = <<>> THEN <<>>
    ELSE LET rest   == SortByPrixDesc(Tail(rows))
             x      == Head(rows)
             before == SelectSeq(rest, LAMBDA r : FGt(r.prix_moyen_m2, x.prix_moyen_m2))
             after  == SelectSeq(rest, LAMBDA r : ~FGt(r.prix_moyen_m2, x.prix_moyen_m2))
         IN  before \o <<x>> \o after

Names(rows) == Unique([i \in 1..Len(rows) |-> rows[i]["nom_commune"]])

\* PriceAnalyzer.analyze_all_cities: the rows of the DataFrame returned, or
\* the exception raised (ValueError without a table; KeyError from
\* get_city_stats, or from sort_values on the column-less DataFrame built
\* from an empty result list)
analyze_all_cities(df) ==
    IF df = None THEN [status |-> "ValueError", rows |-> <<>>]
    ELSE LET cities  == Names(df[1].rows)
             stats   == [i \in 1..Len(cities) |-> get_city_stats(df, cities[i])]
             results ==
                 [i \in 1..Len(cities) |->
                     [ville |-> cities[i],
                      code_departement |->
                          SelectSeq(df[1].rows,
                                    LAMBDA r : r["nom_commune"] = cities[i])[1]["code_departement"],
                      prix_moyen_m2 |-> stats[i].stats.prix_moyen_m2,
                      prix_median_m2 |-> stats[i].stats.prix_median_m2,
                      prix_min_m2 |-> stats[i].stats.prix_min_m2,
                      prix_max_m2 |-> stats[i].stats.prix_max_m2,
                      nombre_transactions |-> stats[i].stats.nombre_transactions]]
         IN  IF \E i \in 1..Len(cities) : stats[i].status = "KeyError"
             THEN [status |-> "KeyError", rows |-> <<>>]
             ELSE IF results = <<>>
             THEN [status |-> "KeyError", rows |-> <<>>]
             ELSE [status |-> "ok", rows |-> SortByPrixDesc(results)]

\* A variant without the early return for a department that has no rows.
get_department_stats_NoEmptyCheck(df, dept_code) ==
    IF df = None THEN [status |-> "ValueError", rows |-> <<>>]
    ELSE LET dept_df == SelectSeq(df[1].rows,
                                  LAMBDA r : r["code_departement"] = dept_code)
             cities  == Names(dept_df)
             stats   == [i \in 1..Len(cities) |-> get_city_stats(df, cities[i])]
             results ==
                 [i \in 1..Len(cities) |->
                     [ville |-> cities[i],
                      prix_moyen_m2 |-> stats[i].stats.prix_moyen_m2,
                      prix_median_m2 |-> stats[i].stats.prix_median_m2,
                      transactions |-> stats[i].stats.nombre_transactions]]
         IN  IF \E i \in 1..Len(cities) : stats[i].status = "KeyError"
             THEN [status |-> "KeyError", rows |-> <<>>]
             ELSE IF results = <<>>
             THEN [status |-> "KeyError", rows |-> <<>>]
             ELSE [status |-> "ok", rows |-> SortByPrixDesc(results)]

\* PriceAnalyzer.get_department_stats: the rows returned ("empty": the empty
\* DataFrame of a department without rows), or the exception raised.  The
\* statistics of each commune come from get_city_stats on the whole table.
get_department_stats(df, dept_code) ==
    IF df = None THEN [status |-> "ValueError", rows |-> <<>>]
    ELSE LET dept_df == SelectSeq(df[1].rows,
                                  LAMBDA r : r["code_departement"] = dept_code)
             cities  == Names(dept_df)
             stats   == [i \in 1..Len(cities) |-> get_city_stats(df, cities[i])]
             results ==
                 [i \in 1..Len(cities) |->
                     [ville |-> cities[i],
                      prix_moyen_m2 |-> stats[i].stats.prix_moyen_m2,
                      prix_median_m2 |-> stats[i].stats.prix_median_m2,
                      transactions |-> stats[i].stats.nombre_transactions]]
         IN  IF dept_df = <<>> THEN [status |-> "empty", rows |-> <<>>]
             ELSE IF \E i \in 1..Len(cities) : stats[i].status = "KeyError"
             THEN [status |-> "KeyError", rows |-> <<>>]
             ELSE [status |-> "ok", rows |-> SortByPrixDesc(results)]

\* Series.mean/min/max skip missing values and give NaN when none is left
DropNa(s) == SelectSeq(s, LAMBDA x : notna(x))

RECURSIVE Sum(_)
Sum(s) == IF s = <<>> THEN Float(0) ELSE FAdd(Head(s), Sum(Tail(s)))

Mean(s) ==
    LET v == DropNa(s) IN IF v = <<>> THEN NaN ELSE FDiv(Sum(v), Float(Len(v)))

Min(s) ==
    LET v == DropNa(s) IN IF v = <<>> THEN NaN ELSE SortFloats(v)[1]

Max(s) ==
    LET v == DropNa(s) IN IF v = <<>> THEN NaN ELSE SortFloats(v)[Len(v)]

NoDeptStats ==
    [nb_communes |-> 0, loyer_moyen |-> NaN, loyer_min |-> NaN, loyer_max |-> NaN]

\* RentAnalyzer.get_department_statistics, after load_idf_data() returned
\* data: the one-row DataFrame, or the empty one ("empty")
get_department_statistics(data, department_code) ==
    LET dept_data == SelectSeq(data.rows, LAMBDA r : r["DEP"] = department_code)
        loyers    == [i \in 1..Len(dept_data) |-> dept_data[i]["loypredm2"]]
    IN  IF dept_data = <<>> THEN [status |-> "empty", stats |-> NoDeptStats]
        ELSE [status |-> "ok",
              stats |-> [nb_communes |-> Len(dept_data),
                         loyer_moyen |-> Mean(loyers),
                         loyer_min |-> Min(loyers),
                         loyer_max |-> Max(loyers)]]

(***************************************************************************)
(* Queries on a PriceAnalyzer built on a table (or on none) and on a       *)
(* RentAnalyzer.  Price tables carry the cleaned columns or the columns of *)
(* the test fixture; their prices are present, as in every cleaned table.  *)
(***************************************************************************)
MaxStatRows == 3

StatRows ==
    {PriceRow(<<"P", "a">>, "75", 10000),
     PriceRow(<<"P", "A">>, "75", 12000),
     PriceRow(<<"P", "a">>, "78", 9000),
     PriceRow(<<"R", "a">>, "78", 8000)}

StatTables ==
    {PriceTable(price_columns, rows) :
        rows \in UNION {[1..n -> StatRows] : n \in 0..MaxStatRows}}
    \cup {PriceTable(fixture_columns, JoinRows)}

QueryRentTables ==
    {Table(rent_columns, <<>>),
     Table(rent_columns, <<BaseRent>>),
     Table(rent_columns,
           <<BaseRent,
             [BaseRent EXCEPT !["LIBGEO"] = <<"P", "r">>, !["INSEE_C"] = "92050",
                              !["DEP"] = "92", !["loypredm2"] = <<223, 10>>]>>)}

NameArgs == {<<"P", "a">>, <<"p", "a">>, <<"P", "A">>, <<"R", "a">>, <<"r", "r">>}

PriceDeptArgs == {"75", "78", "93"}

InitQueries ==
    /\ \/ /\ pa_df \in {Some(t) : t \in StatTables}
          /\ disk_clean = pa_df
       \/ /\ pa_df = None
          /\ disk_clean \in {None, Some(PriceTable(price_columns, JoinRows))}
    /\ disk_rent \in {None} \cup {Some(t) : t \in QueryRentTables}
    /\ ra_data = None
    /\ ra_data_idf = None
    /\ last_call = NoCall
    /\ CleanerIdle
    /\ DownloadersIdle

\* price_analyzer.get_city_stats(city_name)
GetCityStats(city_name) ==
    LET r == get_city_stats(pa_df, city_name)
    IN  /\ last_call' = [op |-> "get_city_stats", city_name |-> city_name,
                         status |-> r.status, stats |-> r.stats]
        /\ UNCHANGED <<analyzerVars, cleanVars, downloadVars>>

\* price_analyzer.analyze_all_cities()
AnalyzeAllCities ==
    LET r == analyze_all_cities(pa_df)
    IN  /\ last_call' = [op |-> "analyze_all_cities", status |-> r.status,
                         rows |-> r.rows]
        /\ UNCHANGED <<analyzerVars, cleanVars, downloadVars>>

\* price_analyzer.get_department_stats(dept_code)
GetDepartmentStats(dept_code) ==
    LET r == get_department_stats(pa_df, dept_code)
    IN  /\ last_call' = [op |-> "get_department_stats", dept_code |-> dept_code,
                         status |-> r.status, rows |-> r.rows]
        /\ UNCHANGED <<analyzerVars, cleanVars, downloadVars>>

\* rent_analyzer.get_department_statistics(department_code)
GetDepartmentStatistics(department_code) ==
    LET l == load_idf_data(ra_data, ra_data_idf, disk_rent)
        r == get_department_statistics(l.data_idf[1], department_code)
    IN  /\ ra_data' = l.data
        /\ ra_data_idf' = l.data_idf
        /\ last_call' =
             [op |-> "get_department_statistics",
              department_code |-> department_code,
              status |-> IF l.raised THEN "FileNotFoundError" ELSE r.status,
              stats |-> IF l.raised THEN NoDeptStats ELSE r.stats]
        /\ UNCHANGED <<disk_rent, pa_df, disk_clean, cleanVars, downloadVars>>

NextQueries ==
    \/ \E n \in NameArgs : GetCityStats(n)
    \/ AnalyzeAllCities
    \/ \E d \in PriceDeptArgs : GetDepartmentStats(d)
    \/ \E c \in CityArgs, i \in InseeArgs : GetCityRentStats(c, i)
    \/ \E d \in PriceDeptArgs : GetDepartmentStatistics(d)

SpecQueries == InitQueries /\ [][NextQueries]_vars

\* the rows of the loaded table that match the queried name
Matching(df, city_name) ==
    SelectSeq(df.rows, LAMBDA r : upper(r["nom_commune"]) = upper(city_name))

MatchingPrices(df, city_name) ==
    {Matching(df, city_name)[i]["prix_m2"] : i \in 1..Len(Matching(df, city_name))}

\* C12: on a table carrying only the columns of the tests' fixture (no
\* room-count column), get_city_stats for a commune with at least one row
\* returns statistics whose count is the number of matching rows and whose
\* mean, min and max are those of the matching prix_m2 values.
C12_FixtureCityStats ==
    (/\ last_call.op = "get_city_stats"
     /\ pa_df # None
     /\ pa_df[1].columns = fixture_columns
     /\ Matching(pa_df[1], last_call.city_name) # <<>>) =>
        LET m == Matching(pa_df[1], last_call.city_name)
            p == MatchingPrices(pa_df[1], last_call.city_name)
        IN  /\ last_call.status = "ok"
            /\ last_call.stats.nombre_transactions = Len(m)
            /\ last_call.stats.prix_min_m2 \in p
            /\ last_call.stats.prix_max_m2 \in p
            /\ \A x \in p : /\ FLe(last_call.stats.prix_min_m2, x)
                            /\ FGe(last_call.stats.prix_max_m2, x)
            /\ FEq(FMul(last_call.stats.prix_moyen_m2, Float(Len(m))), SumPrix(m))

lower(s) == [i \in 1..Len(s) |-> Lower(s[i])]

RentLoaded == last_call.status # "FileNotFoundError" /\ ra_data_idf # None

PriceQueries == {"get_city_stats", "analyze_all_cities", "get_department_stats"}

\* C16: a price-analysis query (get_city_stats, analyze_all_cities,
\* get_department_stats) on a PriceAnalyzer that holds no table raises
\* ValueError and loads no table: the analyzer still holds none afterwards.
C16_NoDataRaisesValueError ==
    last_call.op \in PriceQueries =>
        /\ pa_df = None => last_call.status = "ValueError"
        /\ last_call.status = "ValueError" => pa_df = None

\* A query was refused although a cleaned table exists on disk.
C16_Witness ==
    /\ last_call.op = "analyze_all_cities"
    /\ last_call.status = "ValueError"
    /\ pa_df = None
    /\ disk_clean # None

(***************************************************************************)
(* RentStats.is_reliable evaluated on RentStats objects of every           *)
(* combination of adjusted R2 and observation count (None is NaN).         *)
(***************************************************************************)
R2Values ==
    {NaN, <<-1, 4>>, Float(0), <<3, 10>>, <<49, 100>>, <<1, 2>>, <<3, 4>>, Float(1)}

ObsValues == {NaN, Float(0), Float(1), Float(20), Float(29), Float(30), Float(150)}

LoyerValues == {NaN, <<285, 10>>}

RentStatsInputs ==
    {[NoStats EXCEPT !.r2_ajuste = r2, !.nb_observations_commune = nb,
                     !.loyer_moyen_m2 = loyer] :
        r2 \in R2Values, nb \in ObsValues, loyer \in LoyerValues}

InitRentStats ==
    /\ last_call = NoCall
    /\ CleanerIdle
    /\ AnalyzersIdle
    /\ DownloadersIdle

\* RentStats(...).is_reliable
IsReliable(stats) ==
    /\ last_call' = [op |-> "is_reliable", stats |-> stats,
                     result |-> is_reliable(stats)]
    /\ UNCHANGED <<analyzerVars, cleanVars, downloadVars>>

NextRentStats == \E stats \in RentStatsInputs : IsReliable(stats)

SpecRentStats == InitRentStats /\ [][NextRentStats]_vars

\* C17: is_reliable is true exactly when the adjusted R2 is present and
\* >= 0.5 and the commune observation count is present and >= 30; it is false
\* when either is missing, zero or below its threshold, and it depends on
\* these two fields only.
C17_ReliableIffThresholds ==
    last_call.op = "is_reliable" =>
        LET r2 == last_call.stats.r2_ajuste
            nb == last_call.stats.nb_observations_commune
        IN  /\ last_call.result <=>
                  (/\ notna(r2) /\ r2[1] * 2 >= r2[2]
                   /\ notna(nb) /\ nb[1] >= 30 * nb[2])
            /\ (isna(r2) \/ isna(nb) \/ r2[1] = 0 \/ nb[1] = 0) => ~last_call.result
            /\ \A other \in RentStatsInputs :
                  (other.r2_ajuste = r2 /\ other.nb_observations_commune = nb)
                      => is_reliable(other) = last_call.result

\* Both values sit exactly on their thresholds.
C17_Witness ==
    /\ last_call.op = "is_reliable"
    /\ last_call.stats.r2_ajuste = <<1, 2>>
    /\ last_call.stats.nb_observations_commune = Float(30)
    /\ last_call.result

\* the rent rows get_all_cities_combined_stats iterates over
RentRowsOf(department_code) ==
    IF department_code # ""
    THEN SelectSeq(ra_data_idf[1].rows, LAMBDA r : r["DEP"] = department_code)
    ELSE ra_data_idf[1].rows

\* C18: get_all_cities_combined_stats returns exactly one row per rent row
\* (after the optional department filter) under every pattern of price-lookup
\* outcomes: a lookup that fails or finds nothing gives that row a null price
\* side and a null yield, and neither changes another row nor aborts the batch.
C18_OneRowPerRentRow ==
    (last_call.op = "get_all_cities_combined_stats" /\ last_call.status = "ok") =>
        LET rent == RentRowsOf(last_call.department_code)
            rows == last_call.rows
        IN  /\ Len(rows) = Len(rent)
            /\ \A i \in 1..Len(rent) :
                  LET lookup == get_city_stats(pa_df, rent[i]["LIBGEO"])
                  IN  /\ rows[i].commune = rent[i]["LIBGEO"]
                      /\ rows[i].code_insee = rent[i]["INSEE_C"]
                      /\ rows[i].loyer_moyen_m2 = rent[i]["loypredm2"]
                      /\ lookup.status # "ok" =>
                            /\ isna(rows[i].prix_moyen_m2)
                            /\ isna(rows[i].rendement_brut_pct)
                      /\ lookup.status = "ok" =>
                            rows[i].prix_moyen_m2 = lookup.stats.prix_moyen_m2

\* Two rent rows: the first found its prices, the second found none.
C18_Witness ==
    /\ last_call.op = "get_all_cities_combined_stats"
    /\ last_call.status = "ok"
    /\ pa_df # None
    /\ Len(last_call.rows) = 2
    /\ notna(last_call.rows[1].prix_moyen_m2)
    /\ notna(last_call.rows[1].rendement_brut_pct)
    /\ isna(last_call.rows[2].prix_moyen_m2)
    /\ isna(last_call.rows[2].rendement_brut_pct)

\* C19: the price/rent join is case-insensitive: in
\* get_all_cities_combined_stats a rent row receives the price statistics
\* computed from every transaction whose commune name equals the rent name
\* after upper-casing ("PARIS" for "Paris"), and from no others.
C19_CaseInsensitiveJoin ==
    (/\ last_call.op = "get_all_cities_combined_stats"
     /\ last_call.status = "ok"
     /\ pa_df # None
     /\ stats_columns \subseteq pa_df[1].columns) =>
        \A i \in 1..Len(last_call.rows) :
            LET m == Matching(pa_df[1], last_call.rows[i].commune)
            IN  IF m = <<>>
                THEN isna(last_call.rows[i].prix_moyen_m2)
                ELSE /\ last_call.rows[i].nb_transactions = Float(Len(m))
                     /\ FEq(FMul(last_call.rows[i].prix_moyen_m2, Float(Len(m))),
                            SumPrix(m))

\* The rent row "Pa" was priced from the transactions "PA" and "Pa" together.
C19_Witness ==
    /\ last_call.op = "get_all_cities_combined_stats"
    /\ last_call.status = "ok"
    /\ pa_df # None
    /\ \E j \in 1..Len(pa_df[1].rows) : pa_df[1].rows[j]["nom_commune"] = <<"P", "A">>
    /\ \E i \in 1..Len(last_call.rows) :
          /\ last_call.rows[i].commune = <<"P", "a">>
          /\ last_call.rows[i].nb_transactions = Float(2)
          /\ last_call.rows[i].prix_moyen_m2 = Float(11000)

(***************************************************************************)
(* RentAnalyzer.get_top_cities.  sort_values puts the rows without a rent  *)
(* last in both directions; its default sort is not stable, so any order   *)
(* of the rows of equal rent can come out.                                 *)
(***************************************************************************)
\* A variant that ignores the requested direction.
SortedByRent_Descending(rows, ascending) ==
    \A i, j \in 1..Len(rows) :
        i < j =>
            /\ isna(rows[i]["loypredm2"]) => isna(rows[j]["loypredm2"])
            /\ (notna(rows[i]["loypredm2"]) /\ notna(rows[j]["loypredm2"])) =>
                  FGe(rows[i]["loypredm2"], rows[j]["loypredm2"])

\* rows is a possible result of sort_values("loypredm2", ascending=ascending)
SortedByRent(rows, ascending) ==
    \A i, j \in 1..Len(rows) :
        i < j =>
            /\ isna(rows[i]["loypredm2"]) => isna(rows[j]["loypredm2"])
            /\ (notna(rows[i]["loypredm2"]) /\ notna(rows[j]["loypredm2"])) =>
                  IF ascending
                  THEN FLe(rows[i]["loypredm2"], rows[j]["loypredm2"])
                  ELSE FGe(rows[i]["loypredm2"], rows[j]["loypredm2"])

\* the orders in which the rows of a table can be arranged
RowOrders(k) ==
    {p \in [1..k -> 1..k] : \A i, j \in 1..k : p[i] = p[j] => i = j}

\* DataFrame.head(n) for n >= 0
head(rows, n) == SubSeq(rows, 1, IF n < Len(rows) THEN n ELSE Len(rows))

\* the columns selected and renamed
TopRow(r) ==
    [commune |-> r["LIBGEO"], code_insee |-> r["INSEE_C"], departement |-> r["DEP"],
     loyer_moyen_m2 |-> r["loypredm2"], loyer_bas_m2 |-> r["lwr_IPm2"],
     loyer_haut_m2 |-> r["upr_IPm2"], nb_observations |-> r["nbobs_com"],
     r2_ajuste |-> r["R2_adj"]]

\* RentAnalyzer.get_top_cities, after load_idf_data() returned data: the
\* results the call can give
get_top_cities(data, n, department_code, ascending) ==
    LET filtered ==
            IF department_code # ""
            THEN SelectSeq(data.rows, LAMBDA r : r["DEP"] = department_code)
            ELSE data.rows
        sorted ==
            {[i \in 1..Len(filtered) |-> filtered[p[i]]] :
                p \in RowOrders(Len(filtered))}
    IN  {[i \in 1..Len(head(s, n)) |-> TopRow(head(s, n)[i])] :
            s \in {t \in sorted : SortedByRent(t, ascending)}}

\* one row of the comparison table
ComparisonRow(city_name, stats) ==
    [commune |-> city_name, loyer_moyen_m2 |-> stats.loyer_moyen_m2,
     loyer_bas_m2 |-> stats.loyer_bas_m2, loyer_haut_m2 |-> stats.loyer_haut_m2,
     fiable |-> is_reliable(stats),
     nb_observations |-> stats.nb_observations_commune]

\* the loop of compare_cities: one get_city_rent_stats(city_name=...) per
\* entry, a row appended when it returns statistics
RECURSIVE comparisons(_, _)
comparisons(data, city_names) ==
    IF city_names = <<>> THEN [status |-> "ok", rows |-> <<>>]
    ELSE LET r    == get_city_rent_stats(data, Head(city_names), "")
             rest == comparisons(data, Tail(city_names))
         IN  IF r.status = "ValueError"
             THEN [status |-> "ValueError", rows |-> <<>>]
             ELSE IF rest.status # "ok" THEN rest
             ELSE [status |-> "ok",
                   rows |-> IF r.status = "ok"
                            THEN <<ComparisonRow(Head(city_names), r.stats)>>
                                     \o rest.rows
                            ELSE rest.rows]

\* rows is a possible result of sort_values("loyer_moyen_m2", ascending=False)
SortedByLoyer(rows) ==
    \A i, j \in 1..Len(rows) :
        i < j =>
            /\ isna(rows[i].loyer_moyen_m2) => isna(rows[j].loyer_moyen_m2)
            /\ (notna(rows[i].loyer_moyen_m2) /\ notna(rows[j].loyer_moyen_m2)) =>
                  FGe(rows[i].loyer_moyen_m2, rows[j].loyer_moyen_m2)

\* A variant that returns the rows in the order of the names given.
compare_cities_Unsorted(data, city_names) == {comparisons(data, city_names)}

\* RentAnalyzer.compare_cities, after load_idf_data() returned data: the
\* results the call can give
compare_cities(data, city_names) ==
    LET c == comparisons(data, city_names)
    IN  IF c.status # "ok" \/ c.rows = <<>> THEN {c}
        ELSE {[status |-> "ok", rows |-> s] :
                s \in {t \in {[i \in 1..Len(c.rows) |-> c.rows[p[i]]] :
                                  p \in RowOrders(Len(c.rows))} :
                          SortedByLoyer(t)}}

MaxTopRows == 3

TopRentRows ==
    {BaseRent,
     [BaseRent EXCEPT !["LIBGEO"] = <<"P", "r">>, !["INSEE_C"] = "92050",
                      !["DEP"] = "92", !["loypredm2"] = <<223, 10>>],
     [BaseRent EXCEPT !["LIBGEO"] = <<"A", "r">>, !["INSEE_C"] = "75001",
                      !["loypredm2"] = <<187, 10>>],
     [BaseRent EXCEPT !["LIBGEO"] = <<"R", "p">>, !["INSEE_C"] = "92051",
                      !["DEP"] = "92", !["loypredm2"] = NaN],
     [BaseRent EXCEPT !["LIBGEO"] = <<"R", "a">>, !["INSEE_C"] = "60057",
                      !["DEP"] = "60", !["loypredm2"] = Float(40)]}

TopRentTables ==
    {Table(rent_columns, rows) :
        rows \in UNION {[1..n -> TopRentRows] : n \in 0..MaxTopRows}}

TopNArgs == {0, 1, 2, 10}

TopDeptArgs == {"", "75", "92"}

InitRent ==
    /\ disk_rent \in {None} \cup {Some(t) : t \in TopRentTables}
    /\ ra_data = None
    /\ ra_data_idf = None
    /\ pa_df = None
    /\ disk_clean = None
    /\ last_call = NoCall
    /\ CleanerIdle
    /\ DownloadersIdle

\* rent_analyzer.get_top_cities(n, department_code, ascending)
GetTopCities(n, department_code, ascending) ==
    LET l == load_idf_data(ra_data, ra_data_idf, disk_rent)
    IN  /\ ra_data' = l.data
        /\ ra_data_idf' = l.data_idf
        /\ \E rows \in IF l.raised THEN {<<>>}
                       ELSE get_top_cities(l.data_idf[1], n, department_code,
                                           ascending) :
              last_call' =
                 [op |-> "get_top_cities", n |-> n,
                  department_code |-> department_code, ascending |-> ascending,
                  status |-> IF l.raised THEN "FileNotFoundError" ELSE "ok",
                  rows |-> rows]
        /\ UNCHANGED <<disk_rent, pa_df, disk_clean, cleanVars, downloadVars>>


NextRent ==
    \E n \in TopNArgs, d \in TopDeptArgs, a \in BOOLEAN : GetTopCities(n, d, a)

SpecRent == InitRent /\ [][NextRent]_vars

\* rent a ranks strictly before rent b in the requested direction (a missing
\* rent ranks after every present one)
RanksBefore(a, b, ascending) ==
    /\ notna(a)
    /\ \/ isna(b)
       \/ IF ascending THEN FGt(b, a) ELSE FGt(a, b)

\* C20: get_top_cities(n, department_code, ascending) returns
\* min(n, number of eligible communes) rows, all of the given department when
\* one is given, ordered by predicted rent in the requested direction, and no
\* eligible commune left out has a rent that would rank strictly before a
\* returned one.
C20_TopCitiesOrdered ==
    (last_call.op = "get_top_cities" /\ last_call.status = "ok") =>
        LET eligible == RentRowsOf(last_call.department_code)
            rows     == last_call.rows
            asc      == last_call.ascending
        IN  /\ Len(rows) = IF last_call.n < Len(eligible)
                           THEN last_call.n ELSE Len(eligible)
            /\ last_call.department_code # "" =>
                  \A i \in 1..Len(rows) :
                      rows[i].departement = last_call.department_code
            /\ \A i, j \in 1..Len(rows) :
                  i < j => ~RanksBefore(rows[j].loyer_moyen_m2,
                                        rows[i].loyer_moyen_m2, asc)
            /\ \E f \in [1..Len(rows) -> 1..Len(eligible)] :
                  /\ \A i, j \in 1..Len(rows) : f[i] = f[j] => i = j
                  /\ \A i \in 1..Len(rows) : rows[i] = TopRow(eligible[f[i]])
                  /\ \A k \in 1..Len(eligible) :
                        (\A i \in 1..Len(rows) : f[i] # k) =>
                            \A i \in 1..Len(rows) :
                                ~RanksBefore(eligible[k]["loypredm2"],
                                             rows[i].loyer_moyen_m2, asc)

\* The two highest of three rents, 28.5 then 22.3, with 18.7 left out; and
\* the two lowest in the other direction.
C20_Witness ==
    /\ last_call.op = "get_top_cities"
    /\ last_call.status = "ok"
    /\ last_call.n = 2
    /\ Len(ra_data_idf[1].rows) = 3
    /\ Len(last_call.rows) = 2
    /\ \/ /\ ~last_call.ascending
          /\ last_call.rows[1].loyer_moyen_m2 = <<285, 10>>
          /\ last_call.rows[2].loyer_moyen_m2 = <<223, 10>>
       \/ /\ last_call.ascending
          /\ last_call.rows[1].loyer_moyen_m2 = <<187, 10>>
          /\ last_call.rows[2].loyer_moyen_m2 = <<223, 10>>
    /\ \E k \in 1..3 :
          ra_data_idf[1].rows[k]["loypredm2"] \notin
              {last_call.rows[1].loyer_moyen_m2, last_call.rows[2].loyer_moyen_m2}

(***************************************************************************)
(* RentAnalyzer.compare_cities                                             *)
(***************************************************************************)
MaxNames == 2

\* the names compared: two communes of the table (one written in another
\* case) and one outside Ile-de-France
CompareNames == {<<"P", "a">>, <<"p", "r">>, <<"R", "a">>}

CompareArgs == UNION {[1..n -> CompareNames] : n \in 0..MaxNames}

CompareRows ==
    {BaseRent,
     [BaseRent EXCEPT !["loypredm2"] = NaN, !["R2_adj"] = <<48, 100>>],
     [BaseRent EXCEPT !["LIBGEO"] = <<"P", "r">>, !["INSEE_C"] = "92050",
                      !["DEP"] = "92", !["loypredm2"] = <<223, 10>>,
                      !["nbobs_com"] = Float(12)],
     [BaseRent EXCEPT !["LIBGEO"] = <<"R", "a">>, !["INSEE_C"] = "60057",
                      !["DEP"] = "60"]}

CompareTables ==
    {Table(rent_columns, rows) :
        rows \in UNION {[1..n -> CompareRows] : n \in 0..MaxRentRows}}

InitCompare ==
    /\ disk_rent \in {None} \cup {Some(t) : t \in CompareTables}
    /\ ra_data = None
    /\ ra_data_idf = None
    /\ pa_df = None
    /\ disk_clean = None
    /\ last_call = NoCall
    /\ CleanerIdle
    /\ DownloadersIdle

\* rent_analyzer.compare_cities(city_names): the table is loaded by the first
\* get_city_rent_stats, so not at all when city_names is empty
CompareCities(city_names) ==
    LET l == IF city_names = <<>>
             THEN [data |-> ra_data, data_idf |-> ra_data_idf, raised |-> FALSE]
             ELSE load_idf_data(ra_data, ra_data_idf, disk_rent)
    IN  /\ ra_data' = l.data
        /\ ra_data_idf' = l.data_idf
        /\ \E c \in IF l.raised
                    THEN {[status |-> "FileNotFoundError", rows |-> <<>>]}
                    ELSE IF city_names = <<>>
                    THEN {[status |-> "ok", rows |-> <<>>]}
                    ELSE compare_cities(l.data_idf[1], city_names) :
              last_call' =
                 [op |-> "compare_cities", city_names |-> city_names,
                  status |-> c.status, rows |-> c.rows]
        /\ UNCHANGED <<disk_rent, pa_df, disk_clean, cleanVars, downloadVars>>

NextCompare == \E city_names \in CompareArgs : CompareCities(city_names)

SpecCompare == InitCompare /\ [][NextCompare]_vars

\* the rows of the loaded Ile-de-France table that the name matches
RentMatches(city_name) ==
    SelectSeq(ra_data_idf[1].rows,
              LAMBDA r : upper(r["LIBGEO"]) = upper(city_name))

UrlsOf(u) ==
    IF u.kind = "str" THEN {u.url}
    ELSE {u.urls[i][2] : i \in DOMAIN u.urls}

\* C22: download_rent_data fetches only from the first available of the
\* custom_url argument, RENT_CUSTOM_URLS[year] and RENT_CSV_URLS[year], and
\* does fetch from it when forced; when none of the three is available it
\* returns null, fetches nothing and leaves every file as it was.
C22_UrlPriority ==
    [][LET call == last_call'
       IN  /\ \A i \in DOMAIN call.fetched :
                 call.fetched[i].url \in
                     UrlsOf(IF call.custom_url # NoUrl THEN call.custom_url
                            ELSE IF rent_custom_urls # NoUrl THEN rent_custom_urls
                            ELSE rent_csv_urls)
           /\ (call.force /\ <<call.custom_url, rent_custom_urls, rent_csv_urls>>
                                 # <<NoUrl, NoUrl, NoUrl>>) =>
                 call.fetched # <<>>
           /\ <<call.custom_url, rent_custom_urls, rent_csv_urls>>
                 = <<NoUrl, NoUrl, NoUrl>> =>
                 /\ call.status = "none"
                 /\ call.fetched = <<>>
                 /\ fs' = fs]_vars

\* The argument wins over both configured entries: the year has a custom and
\* a default configuration, and the file is fetched from the URL passed.
C22_Witness ==
    /\ last_call.op = "download_rent_data"
    /\ last_call.custom_url = UrlStr("https://custom/loyers.csv")
    /\ rent_custom_urls = UrlStr("https://config/loyers.csv")
    /\ rent_csv_urls = RENT_CSV_URLS
    /\ last_call.status = "path"
    /\ Len(last_call.fetched) = 1
    /\ last_call.fetched[1].url = "https://custom/loyers.csv"
    /\ fs[RentFile("")] = "new"

(***************************************************************************)
(* PriceAnalyzer.get_department_stats                                      *)
(***************************************************************************)
\* the loaded price table restricted to the rows of one department
DepartmentTable(dept_code) ==
    Some([pa_df[1] EXCEPT
            !.rows = SelectSeq(pa_df[1].rows,
                               LAMBDA r : r["code_departement"] = dept_code)])

\* C23: get_department_stats(d) returns one row per distinct commune name
\* among the rows of department d, and each row's mean, median and number of
\* transactions are those of the commune's rows within department d.
C23_DepartmentStatsFromDepartmentRows ==
    (last_call.op = "get_department_stats" /\ last_call.status = "ok") =>
        LET dept  == DepartmentTable(last_call.dept_code)
            rows  == last_call.rows
        IN  /\ Len(rows) = Cardinality({dept[1].rows[i]["nom_commune"] :
                                           i \in 1..Len(dept[1].rows)})
            /\ \A i \in 1..Len(rows) :
                  LET s == get_city_stats(dept, rows[i].ville)
                  IN  /\ s.status = "ok"
                      /\ rows[i].prix_moyen_m2 = s.stats.prix_moyen_m2
                      /\ rows[i].prix_median_m2 = s.stats.prix_median_m2
                      /\ rows[i].transactions = s.stats.nombre_transactions

\* C24: with a per-property-type mapping of URLs, a failed fetch (a request
\* error, which _download_file turns into a null result) does not abort the
\* batch: every property type whose file is not served from the cache is
\* fetched, and the file of every type fetched successfully is in the result.
C24_BatchContinuesAfterFailure ==
    [][LET call == last_call'
           urls == IF call.custom_url # NoUrl THEN call.custom_url
                   ELSE IF rent_custom_urls # NoUrl THEN rent_custom_urls
                   ELSE rent_csv_urls
       IN  (/\ urls.kind = "dict"
            /\ \A k \in DOMAIN call.fetched :
                  call.fetched[k].outcome \in {"ok", "request_error", "transfer_error"}) =>
               \A i \in DOMAIN urls.urls :
                   LET output_file == RentFile(urls.urls[i][1])
                   IN  /\ (call.force \/ fs[output_file] = "absent") =>
                              \E k \in DOMAIN call.fetched :
                                  call.fetched[k].file = output_file
                       /\ (\E k \in DOMAIN call.fetched :
                              /\ call.fetched[k].file = output_file
                              /\ call.fetched[k].outcome = "ok") =>
                              output_file \in call.paths]_vars

(***************************************************************************)
(* DVFDownloader.download_idf_data                                         *)
(***************************************************************************)
\* the keys of IDF_DEPARTMENTS, in the order of the dict
IDF_DEPARTMENTS == <<"75", "77", "78", "91", "92", "93", "94", "95">>

\* A variant of the loop that gives up at the first department that fails.
RECURSIVE download_idf_loop_StopAtFailure(_, _, _, _, _)
download_idf_loop_StopAtFailure(files, departments, year, outcomes, acc) ==
    IF departments = <<>> THEN [acc EXCEPT !.files = files]
    ELSE LET dept_code == Head(departments)
             r == download_department_data(files, dept_code, year, <<>>,
                                           outcomes[dept_code])
             next == [calls |-> Append(acc.calls, dept_code),
                      downloaded_files |->
                          IF r.status = "path"
                          THEN acc.downloaded_files \cup {dept_code}
                          ELSE acc.downloaded_files,
                      fetched |-> acc.fetched \o r.fetched,
                      files |-> r.files]
         IN  IF r.status # "path" THEN next
             ELSE download_idf_loop_StopAtFailure(r.files, Tail(departments),
                                                  year, outcomes, next)

\* The loop of download_idf_data: one download_department_data(dept_code,
\* year) per key, the department recorded when a path comes back.  acc
\* carries the calls made, downloaded_files and the fetches.
RECURSIVE download_idf_loop(_, _, _, _, _)
download_idf_loop(files, departments, year, outcomes, acc) ==
    IF departments = <<>> THEN [acc EXCEPT !.files = files]
    ELSE LET dept_code == Head(departments)
             r == download_department_data(files, dept_code, year, <<>>,
                                           outcomes[dept_code])
         IN  download_idf_loop(r.files, Tail(departments), year, outcomes,
                 [calls |-> Append(acc.calls, dept_code),
                  downloaded_files |->
                      IF r.status = "path"
                      THEN acc.downloaded_files \cup {dept_code}
                      ELSE acc.downloaded_files,
                  fetched |-> acc.fetched \o r.fetched,
                  files |-> r.files])

download_idf_data(files, year, outcomes) ==
    download_idf_loop(files, IDF_DEPARTMENTS, year, outcomes,
                      [calls |-> <<>>, downloaded_files |-> {},
                       fetched |-> <<>>, files |-> files])

IdfFiles ==
    {CsvFile(d, y) : d \in idf_departments, y \in DvfYears}
        \cup {GzFile(d, y) : d \in idf_departments, y \in DvfYears}

\* the departments whose .csv is in data_dir before the first call
CachedDepartments == {{}, {"75"}, {"77", "95"}, idf_departments}

\* the departments whose download may fail: the first, one in the middle and
\* the last of the loop
FailingDepartments == {"75", "78", "95"}

IdfOutcomes ==
    {[d \in idf_departments |-> IF d \in FailingDepartments THEN f[d] ELSE "ok"] :
        f \in [FailingDepartments -> DvfOutcomes]}

InitDvfIdf ==
    /\ fs \in {[f \in IdfFiles |->
                  IF \E d \in cached, y \in DvfYears : f = CsvFile(d, y)
                  THEN "old" ELSE "absent"] : cached \in CachedDepartments}
    /\ rent_custom_urls = NoUrl
    /\ rent_csv_urls = NoUrl
    /\ last_call = NoCall
    /\ CleanerIdle
    /\ AnalyzersIdle

DownloadIdfData(year, outcomes) ==
    LET r == download_idf_data(fs, year, outcomes)
    IN  /\ fs' = r.files
        /\ last_call' = [op               |-> "download_idf_data",
                         year             |-> year,
                         calls            |-> r.calls,
                         downloaded_files |-> r.downloaded_files,
                         fetched          |-> r.fetched]
        /\ UNCHANGED <<rent_custom_urls, rent_csv_urls, cleanVars, analyzerVars>>

NextDvfIdf ==
    \E year \in DvfYears, outcomes \in IdfOutcomes : DownloadIdfData(year, outcomes)

SpecDvfIdf == InitDvfIdf /\ [][NextDvfIdf]_vars

MainFlags ==
    {"download", "download_rent", "clean", "analyze", "analyze_rent",
     "analyze_combined", "analyze_combined2", "full_pipeline"}

\* the stages in the order of the if statements of main
individual_stages ==
    <<"download", "download_rent", "clean", "analyze", "analyze_rent",
      "analyze_combined", "analyze_combined2">>

full_pipeline_stages == <<"download", "download_rent", "clean", "analyze_combined2">>

\* the stage functions main will call for these flags, in order
stages(args) ==
    IF "full_pipeline" \in args THEN full_pipeline_stages
    ELSE SelectSeq(individual_stages, LAMBDA s : s \in args)

StageOutcomes(stage) ==
    IF stage \in {"download", "download_rent"}
    THEN {"ok", "failed", "raised"}
    ELSE {"ok", "failed"}

\* A variant that goes on to the next stage after a failed one and reports
\* the result of the last stage.
run_stage_ContinueOnFailure(run, outcome) ==
    [run EXCEPT !.todo = Tail(@),
                !.ran  = Append(@, [stage |-> Head(run.todo), outcome |-> outcome]),
                !.exit = IF outcome = "raised" \/ (outcome = "failed" /\ Len(run.todo) = 1)
                         THEN Some(1) ELSE None]

\* success = stage(...); if not success: sys.exit(1)
run_stage(run, outcome) ==
    [run EXCEPT !.todo = Tail(@),
                !.ran  = Append(@, [stage |-> Head(run.todo), outcome |-> outcome]),
                !.exit = IF outcome = "ok" THEN None ELSE Some(1)]

InitMain ==
    /\ last_call = NoCall
    /\ CleanerIdle
    /\ AnalyzersIdle
    /\ DownloadersIdle

\* parse_args; without any action flag main prints the help and exits 0
MainStart(args) ==
    /\ last_call = NoCall
    /\ last_call' = [op |-> "main", args |-> args, todo |-> stages(args),
                     ran |-> <<>>,
                     exit |-> IF args = {} THEN Some(0) ELSE None]
    /\ UNCHANGED <<cleanVars, analyzerVars, downloadVars>>

\* the next requested stage runs
RunStage(outcome) ==
    /\ last_call.op = "main"
    /\ last_call.exit = None
    /\ last_call.todo # <<>>
    /\ outcome \in StageOutcomes(Head(last_call.todo))
    /\ last_call' = run_stage(last_call, outcome)
    /\ UNCHANGED <<cleanVars, analyzerVars, downloadVars>>

\* every stage returned True: the success banner, and main returns
MainEnd ==
    /\ last_call.op = "main"
    /\ last_call.exit = None
    /\ last_call.todo = <<>>
    /\ last_call' = [last_call EXCEPT !.exit = Some(0)]
    /\ UNCHANGED <<cleanVars, analyzerVars, downloadVars>>

NextMain ==
    \/ \E args \in SUBSET MainFlags : MainStart(args)
    \/ \E outcome \in {"ok", "failed", "raised"} : RunStage(outcome)
    \/ MainEnd

SpecMain == InitMain /\ [][NextMain]_vars

\* the stages a command line asks for: those of the full pipeline when
\* --full-pipeline is given, else the flagged ones
Requested(args) ==
    IF "full_pipeline" \in args
    THEN {"download", "download_rent", "clean", "analyze_combined2"}
    ELSE args

\* the position of a stage in the fixed order
StageRank(stage) ==
    CASE stage = "download" -> 1
      [] stage = "download_rent" -> 2
      [] stage = "clean" -> 3
      [] stage = "analyze" -> 4
      [] stage = "analyze_rent" -> 5
      [] stage = "analyze_combined" -> 6
      [] stage = "analyze_combined2" -> 7

\* C26: main runs requested stages only, each at most once and in the order
\* download, download-rent, clean, analyze, analyze-rent, analyze-combined
\* (full pipeline: download, download-rent, clean, combined analysis), never
\* skipping a requested stage; a stage that fails is the last one run and the
\* process then has exit status 1; the exit status is 0 only if every
\* requested stage was run and succeeded.
C26_StagesInOrderStopAtFailure ==
    last_call.op = "main" =>
        LET ran == last_call.ran
            req == Requested(last_call.args)
        IN  /\ \A i \in DOMAIN ran : ran[i].stage \in req
            /\ \A i, j \in DOMAIN ran :
                  i < j => StageRank(ran[i].stage) < StageRank(ran[j].stage)
            /\ \A i \in DOMAIN ran :
                  \A s \in req :
                      StageRank(s) < StageRank(ran[i].stage) =>
                          \E k \in 1..(i - 1) : ran[k].stage = s
            /\ \A i \in DOMAIN ran :
                  ran[i].outcome # "ok" =>
                      /\ i = Len(ran)
                      /\ last_call.exit = Some(1)
            /\ last_call.exit = Some(0) =>
                  \A s \in req :
                      \E i \in DOMAIN ran :
                          ran[i].stage = s /\ ran[i].outcome = "ok"
            /\ last_call.exit = Some(1) =>
                  (ran # <<>> /\ ran[Len(ran)].outcome # "ok")

\* --download --clean --analyze with a cleaning that fails: download and clean
\* have run, analyze has not, and the status is 1.
C26_Witness ==
    /\ last_call.op = "main"
    /\ last_call.args = {"download", "clean", "analyze"}
    /\ last_call.ran = <<[stage |-> "download", outcome |-> "ok"],
                         [stage |-> "clean", outcome |-> "failed"]>>
    /\ last_call.exit = Some(1)

(***************************************************************************)
(* The downloaders' caches                                                 *)
(***************************************************************************)
\* the cache files a call of download_rent_data writes to
RentTargets(call) ==
    LET urls == IF call.custom_url # NoUrl THEN call.custom_url
                ELSE IF rent_custom_urls # NoUrl THEN rent_custom_urls
                ELSE rent_csv_urls
    IN  IF urls.kind = "str" THEN {RentFile("")}
        ELSE {RentFile(urls.urls[i][1]) : i \in DOMAIN urls.urls}

\* C27: a call of download_rent_data whose target file(s) exist and whose
\* force is false returns the path(s), fetches nothing and leaves every file
\* as it is; no call without force fetches to, or changes, a file that
\* exists; a call with force fetches even when the target exists; and after a
\* call that returned path(s) every target exists, so that the later calls
\* without force for these targets fetch nothing.
C27_RentCacheSkipsFetch ==
    [][LET call    == last_call'
           targets == RentTargets(call)
       IN  /\ (~call.force /\ targets # {} /\ \A f \in targets : fs[f] # "absent") =>
                 /\ call.status \in {"path", "dict"}
                 /\ call.paths = targets
                 /\ call.fetched = <<>>
                 /\ fs' = fs
           /\ ~call.force =>
                 \A f \in RentFiles :
                     fs[f] # "absent" =>
                         /\ fs'[f] = fs[f]
                         /\ \A k \in DOMAIN call.fetched : call.fetched[k].file # f
           /\ (call.force /\ targets # {}) =>
                 /\ call.fetched # <<>>
                 /\ call.fetched[1].file \in targets
           /\ call.status \in {"path", "dict"} =>
                 /\ call.paths = targets
                 /\ \A f \in targets : fs'[f] # "absent"]_vars

\* A call without force that found the file fetched by an earlier call.
C27_Witness ==
    /\ last_call.op = "download_rent_data"
    /\ last_call.custom_url = UrlStr("https://custom/loyers.csv")
    /\ ~last_call.force
    /\ last_call.status = "path"
    /\ last_call.paths = {RentFile("")}
    /\ last_call.fetched = <<>>
    /\ fs[RentFile("")] = "new"

\* C28: when dvf_{year}_{department}.csv exists, download_department_data
\* (department, year) returns its path, fetches nothing and changes no file;
\* and a call that returned a path leaves that file in data_dir, so that
\* every later call for the same year and department fetches nothing and
\* returns the same path.
C28_DvfCacheSkipsFetch ==
    [][LET call        == last_call'
           output_file == CsvFile(call.department, call.year)
       IN  call.custom_url = <<>> =>
               /\ fs[output_file] # "absent" =>
                     /\ call.status = "path"
                     /\ call.fetched = <<>>
                     /\ fs' = fs
               /\ call.status = "path" => fs'[output_file] # "absent"
               /\ \A f \in DvfFiles :
                     (fs[f] # "absent" /\ fs'[f] # fs[f]) =>
                         /\ f = GzFile(call.department, call.year)
                         /\ call.fetched # <<>>]_vars

\* A second call for a department whose file was fetched by an earlier call.
C28_Witness ==
    /\ last_call.op = "download_department_data"
    /\ last_call.department = "75"
    /\ last_call.custom_url = <<>>
    /\ last_call.status = "path"
    /\ last_call.fetched = <<>>
    /\ fs[CsvFile("75", "2023")] = "new"

(***************************************************************************)
(* RentAnalyzer: the table is loaded at the first query and kept.  The     *)
(* rent file of the year can be written, replaced or removed between two   *)
(* queries (a download into data_dir).                                     *)
(***************************************************************************)
InitLazy ==
    /\ disk_rent \in {None} \cup {Some(t) : t \in QueryRentTables}
    /\ ra_data = None
    /\ ra_data_idf = None
    /\ pa_df = None
    /\ disk_clean = None
    /\ last_call = NoCall
    /\ CleanerIdle
    /\ DownloadersIdle

\* rent_analyzer.load_idf_data()
RentLoadIdfData ==
    LET l == load_idf_data(ra_data, ra_data_idf, disk_rent)
    IN  /\ ra_data' = l.data
        /\ ra_data_idf' = l.data_idf
        /\ last_call' = [op |-> "RentAnalyzer.load_idf_data",
                         status |-> Status(l.raised)]
        /\ UNCHANGED <<disk_rent, pa_df, disk_clean, cleanVars, downloadVars>>

\* the rent file of the year is written, replaced or removed
RentFileChanges(disk) ==
    /\ disk # disk_rent
    /\ disk_rent' = disk
    /\ last_call' = [op |-> "rent_file_changed"]
    /\ UNCHANGED <<ra_data, ra_data_idf, pa_df, disk_clean, cleanVars, downloadVars>>

NextLazy ==
    \/ RentLoadData
    \/ RentLoadIdfData
    \/ \E c \in CityArgs, i \in InseeArgs : GetCityRentStats(c, i)
    \/ \E d \in PriceDeptArgs : GetDepartmentStatistics(d)
    \/ \E disk \in {None} \cup {Some(t) : t \in QueryRentTables} :
          RentFileChanges(disk)

SpecLazy == InitLazy /\ [][NextLazy]_vars

\* C29: a call on an unloaded RentAnalyzer loads the table from the file
\* (load_idf_data and the queries also derive the Ile-de-France table); once
\* a table is held no later call replaces it, whatever happens to the file;
\* and a load that finds no file raises FileNotFoundError and leaves the
\* analyzer unloaded, so that the next call loads again.
C29_LazyLoadCached ==
    [][/\ ra_data # None => ra_data' = ra_data
       /\ ra_data_idf # None => ra_data_idf' = ra_data_idf
       /\ last_call'.op # "rent_file_changed" =>
             /\ (ra_data = None /\ disk_rent = None) =>
                   /\ last_call'.status = "FileNotFoundError"
                   /\ ra_data' = None
                   /\ ra_data_idf' = None
             /\ (ra_data = None /\ disk_rent # None) =>
                   /\ ra_data' = disk_rent
                   /\ last_call'.status # "FileNotFoundError"
             /\ (last_call'.op # "RentAnalyzer.load_data" /\ ra_data_idf = None
                     /\ disk_rent # None /\ ra_data = None) =>
                   ra_data_idf' = Some(filter_idf_data(disk_rent[1]))]_vars

\* A query answered from the table held, after the file was replaced by
\* another one: the commune of the new file is not found.
C29_Witness ==
    /\ last_call.op = "get_city_rent_stats"
    /\ last_call.insee_code = "92050"
    /\ last_call.status = "none"
    /\ ra_data = Some(Table(rent_columns, <<BaseRent>>))
    /\ disk_rent # None
    /\ Len(disk_rent[1].rows) = 2

(***************************************************************************)
(* PriceAnalyzer.analyze_all_cities                                        *)
(***************************************************************************)
\* the rows of the loaded price table that bear exactly this name
RowsNamed(city_name) ==
    SelectSeq(pa_df[1].rows, LAMBDA r : r["nom_commune"] = city_name)

\* C30: analyze_all_cities returns exactly one row per distinct commune name
\* of the loaded table, each with the statistics get_city_stats gives for
\* that name and the department code of the first row bearing the name, the
\* rows being in non-increasing order of mean price.
C30_AllCitiesOneRowPerName ==
    (last_call.op = "analyze_all_cities" /\ pa_df # None) =>
        LET rows  == last_call.rows
            names == {pa_df[1].rows[i]["nom_commune"] : i \in 1..Len(pa_df[1].rows)}
        IN  /\ last_call.status = "ok"
            /\ Len(rows) = Cardinality(names)
            /\ {rows[i].ville : i \in 1..Len(rows)} = names
            /\ \A i \in 1..Len(rows) :
                  LET s == get_city_stats(pa_df, rows[i].ville).stats
                  IN  /\ rows[i].prix_moyen_m2 = s.prix_moyen_m2
                      /\ rows[i].prix_median_m2 = s.prix_median_m2
                      /\ rows[i].prix_min_m2 = s.prix_min_m2
                      /\ rows[i].prix_max_m2 = s.prix_max_m2
                      /\ rows[i].nombre_transactions = s.nombre_transactions
                      /\ rows[i].code_departement =
                            RowsNamed(rows[i].ville)[1]["code_departement"]
            /\ \A i, j \in 1..Len(rows) :
                  i < j => FGe(rows[i].prix_moyen_m2, rows[j].prix_moyen_m2)

====
